---------------------------- MODULE Spec2Model ----------------------------
(***************************************************************************)
(* pg_meter (pgmtr): the `run` command's workload engine, its client tasks *)
(* and the data collector thread of src/src/executor.rs.                   *)
(*                                                                         *)
(* Three kinds of processes share one unbounded crossbeam channel (tx/rx): *)
(*   - the engine (Executor::run_benchmark), which spawns the clients one  *)
(*     per ramp-up tick, sends ENDOFRAMPUP, awaits the clients, sends      *)
(*     TERMINATE, joins the collector and receives its counters;           *)
(*   - the clients (Executor::start_rw_client), which execute one          *)
(*     transaction after another and send one COMMITTED or ERROR message   *)
(*     for each;                                                           *)
(*   - the data collector (Executor::start_data_collector), which writes   *)
(*     the two log files and keeps the counters.                           *)
(*                                                                         *)
(* Conventions of the model:                                               *)
(*   - u64 arithmetic is done in Int: a negative result is the case in     *)
(*     which the u64 subtraction would underflow;                          *)
(*   - a duration in milliseconds (an f64 in the code, tx_duration_us /    *)
(*     1000) is held exactly, as its number of thousandths;                *)
(*   - the tx_timestamp of a message is copied to the log line unread and  *)
(*     is not part of the state;                                           *)
(*   - there is no clock: slept_ms is the time the engine has spent in its *)
(*     ramp-up sleeps, a reading of start.elapsed() is that time plus the  *)
(*     overhead of the run, and a client's deadline check is an input      *)
(*     of the client's step;                                               *)
(*   - the five business transactions of src/src/executor/tpcc.rs run in   *)
(*     specifications of their own (SpecTx, SpecDelivery) against a        *)
(*     database of a few rows: a session's statements read the committed   *)
(*     rows and its own writes, its writes stay in the session until       *)
(*     COMMIT and lock their rows (PostgreSQL's READ COMMITTED, the        *)
(*     default of client.transaction()); in the specifications of the      *)
(*     engine no session exists and the database is not touched.           *)
(***************************************************************************)
EXTENDS Integers, Sequences, FiniteSets

\* ------------------------------------------------------------------ bounds

\* Transactions all the clients together execute in the concurrent
\* specification (each at least one): when they are used up, every
\* deadline check finds the deadline passed.
MaxMsgs == 3

\* Records a BufWriter holds before a write makes it flush (it stands for
\* the 8 KiB default capacity of BufWriter::new).
BufCap == 2

\* The most lines New-Order draws for an order (15 in the code), and the
\* number of items the database is loaded with (100000 in the code).
MaxOlCnt == 2
MaxItem == 2

\* Ranges of --client, --time and --rampup of the ramp-up schedule
\* specification.
MaxRampClient == 6
MaxTime == 2
MaxRampup == 3

\* Ranges of --scalefactor and --jobs of `init`.
MaxScale == 3
MaxJobs == 2

\* The longest list of statements exec_stmts is called with.
MaxStmts == 4

\* The scale of the loaders: districts of a warehouse (10 in the code),
\* orders and customers of a district (3000), the orders of a district
\* that are loaded as delivered (2100), and the items of one COPY (500).
NDistrict == 2
NOrders == 3
NDelivered == 1
BatchSize == 2

\* The lines of the log the aggregation reads, and the seconds they are
\* spread over.
MaxLog == 3
MaxTs == 2

\* The New-Orders that are applied to a stock row one after the other.
MaxOrders == 3

\* --------------------------------------------------------------- constants

\* Transaction ids of the catalog that the clients draw from (two of the
\* five ids of get_transactions_rw: the collector treats every id alike).
TxIds == {1, 2}

\* format!("{}", error) of the errors execute_rw_transaction returns: the
\* TPCCError of a routine that rolled back, and the driver's error that `?`
\* hands up when the connection is lost while the routine runs.
RollbackError == "transaction rollbacked"
ConnectionError == "connection closed"

\* The errors a transaction of the given id fails with (one per id: which
\* routine meets which failure makes no difference to the client).
Errors(tx_id) == IF tx_id = 1 THEN {RollbackError} ELSE {ConnectionError}

\* Values of tx_duration_us a committed transaction of client c returns.
Durations(c) == {1000 * c + 500}

\* RunArgs {client, time, rampup} values of the concurrent specification:
\* one or two clients, with a zero and with a positive deadline.
RunArgsSet ==
    { [client |-> c, time |-> t, rampup |-> t] : c \in {1, 2}, t \in {0, 1} }

\* Whole milliseconds that start.elapsed() can show beyond the engine's
\* sleeps at the end of the ramp-up: the time since `start` that is not
\* sleep (creating the target directory, starting the collector and the
\* runtime, spawning the tasks) either stays below one millisecond or does
\* not.  The concurrent specification runs with the first of them.
OverheadMs == {0, 1}

\* RunArgs values of the ramp-up schedule specification.
RampArgsSet ==
    { [client |-> c, time |-> t, rampup |-> r] :
        c \in 1..MaxRampClient, t \in 0..MaxTime, r \in 0..MaxRampup }

VARIABLES
    exit_code,       \* 0 while the process runs, then the code it exited with
    args,            \* RunArgs of this run
    overhead_ms,     \* whole ms of this run's ramp-up that are not sleep
    engine_pc,       \* position of run_benchmark
    client_id,       \* loop variable of the spawn loop (clients spawned)
    slept_ms,        \* total of the engine's ramp-up sleeps so far
    duration_ms,     \* client id -> deadline handed to start_rw_client
    spawn_ms,        \* client id -> slept_ms when the client was spawned
    rampup_time_ms,  \* self.rampup_time_ms
    total_time_ms,   \* self.total_time_ms
    self_counters,   \* self.counters
    client_pc,       \* client id -> position of the client task
    n_tx,            \* client id -> transactions executed
    deadline_reached,\* client id -> outcome of the client's last deadline check
    rx,              \* the outcome channel (messages in flight)
    rx_counters,     \* the counters channel
    sink_pc,         \* position of the data collector thread
    counters,        \* collector: HashMap<u16, Counter>
    client_ids,      \* collector: keys of the BTreeMap client_ids
    n_client,        \* collector: n_client
    ramping_up,      \* collector: ramping_up
    log_file,        \* collector: BufWriter over transaction.log
    error_file,      \* collector: BufWriter over error.log
    consumed,        \* history: messages received, with ramping_up then
    tpcc,            \* TPCC {start_id, end_id}: the warehouse ids of the run
    db,              \* the database: row key -> committed row
    session,         \* session id -> the routine it executes, its locals
                     \* and the uncommitted writes of its transaction
    main_pc,         \* position of main, or of the function that is followed
    cmd_args,        \* the arguments of the command or of the function
    stages,          \* the lines start_msg has printed, in order
    jobs,            \* job -> position of the job thread and what it holds
    executed,        \* history of the function that is followed: the calls
                     \* of each job's session, the warehouses whose load has
                     \* started, the transactions whose files are written
    tables,          \* row -> number of copies the loaders have written
    target_dir,      \* file name -> content of the file in target_dir
    summary          \* transaction id -> the TransactionSummary printed

engine_vars == <<exit_code, args, overhead_ms, engine_pc, client_id, slept_ms,
                 duration_ms, spawn_ms, rampup_time_ms, total_time_ms,
                 self_counters>>
client_vars == <<client_pc, n_tx, deadline_reached>>
sink_vars == <<sink_pc, counters, client_ids, n_client, ramping_up,
               log_file, error_file, consumed>>
db_vars == <<tpcc, db, session>>
cmd_vars == <<main_pc, cmd_args, stages, jobs, executed, tables, target_dir,
              summary>>
idle_vars == <<db_vars, cmd_vars>>
vars == <<engine_vars, client_vars, rx, rx_counters, sink_vars, db_vars,
          cmd_vars>>

\* The process has not called std::process::exit: its threads and tasks run.
Running == exit_code = 0

\* ---------------------------------------------------------------- messages

TXMessage_default ==
    [kind |-> "DEFAULT", tx_id |-> 0, client_id |-> 0, tx_duration_us |-> 0,
     error |-> ""]

TXMessage_terminate_data_collector ==
    [TXMessage_default EXCEPT !.kind = "TERMINATE"]

TXMessage_end_of_rampup ==
    [TXMessage_default EXCEPT !.kind = "ENDOFRAMPUP"]

TXMessage_committed(tx_id, cid, tx_duration_us) ==
    [TXMessage_default EXCEPT !.kind = "COMMITTED", !.tx_id = tx_id,
                              !.client_id = cid,
                              !.tx_duration_us = tx_duration_us]

TXMessage_error(tx_id, cid, error) ==
    [TXMessage_default EXCEPT !.kind = "ERROR", !.tx_id = tx_id,
                              !.client_id = cid, !.error = error]


\* ------------------------------------------------------- the data collector

\* tx_duration_us as f64 / 1000, held as a number of thousandths of a ms.
DurationMsOf(tx_duration_us) == tx_duration_us

\* The BTreeMap client_ids after the lookup/insert of a message's client_id.
ClientIdsAfter(ids, cid) == ids \cup {cid}

\* Mutant of NClientAfter: n_client incremented for every message.
NClientAfter_Always(ids, n, cid) == n + 1

\* n_client after the lookup of a message's client_id: incremented when
\* the id is new, unchanged otherwise.  This value is what the line gets.
NClientAfter(ids, n, cid) == IF cid \notin ids THEN n + 1 ELSE n

\* Mutant of CounterCommitted: the duration is kept by the insert only, not
\* added by the update of an existing counter.
CounterCommitted_NoDuration(cs, tx_id, dur_ms) ==
    IF tx_id \in DOMAIN cs
    THEN [cs EXCEPT ![tx_id] =
            [n_commits |-> @.n_commits + 1, n_total |-> @.n_total + 1,
             total_duration_ms |-> @.total_duration_ms]]
    ELSE [t \in DOMAIN cs \cup {tx_id} |->
            IF t = tx_id
            THEN [n_commits |-> 1, n_total |-> 1, total_duration_ms |-> dur_ms]
            ELSE cs[t]]

\* Counter update of a COMMITTED message.
CounterCommitted(cs, tx_id, dur_ms) ==
    IF tx_id \in DOMAIN cs
    THEN [cs EXCEPT ![tx_id] =
            [n_commits |-> @.n_commits + 1, n_total |-> @.n_total + 1,
             total_duration_ms |-> @.total_duration_ms + dur_ms]]
    ELSE [t \in DOMAIN cs \cup {tx_id} |->
            IF t = tx_id
            THEN [n_commits |-> 1, n_total |-> 1, total_duration_ms |-> dur_ms]
            ELSE cs[t]]

\* Mutant of CounterError: the ERROR branch bumps n_commits where it should
\* bump n_total.
CounterError_BumpsCommits(cs, tx_id) ==
    IF tx_id \in DOMAIN cs
    THEN [cs EXCEPT ![tx_id] =
            [n_commits |-> @.n_commits + 1, n_total |-> @.n_total,
             total_duration_ms |-> @.total_duration_ms]]
    ELSE [t \in DOMAIN cs \cup {tx_id} |->
            IF t = tx_id
            THEN [n_commits |-> 0, n_total |-> 1, total_duration_ms |-> 0]
            ELSE cs[t]]

\* Counter update of an ERROR message.
CounterError(cs, tx_id) ==
    IF tx_id \in DOMAIN cs
    THEN [cs EXCEPT ![tx_id] =
            [n_commits |-> @.n_commits, n_total |-> @.n_total + 1,
             total_duration_ms |-> @.total_duration_ms]]
    ELSE [t \in DOMAIN cs \cup {tx_id} |->
            IF t = tx_id
            THEN [n_commits |-> 0, n_total |-> 1, total_duration_ms |-> 0]
            ELSE cs[t]]

\* Mutant of CountersAfter: the counters are updated during ramp-up too.
CountersAfter_Ungated(ramp, cs, msg) ==
    IF msg.kind = "COMMITTED"
    THEN CounterCommitted(cs, msg.tx_id, DurationMsOf(msg.tx_duration_us))
    ELSE CounterError(cs, msg.tx_id)

\* "Update counters only if the rampup stage is over".
CountersAfter(ramp, cs, msg) ==
    IF ~ramp
    THEN IF msg.kind = "COMMITTED"
         THEN CounterCommitted(cs, msg.tx_id, DurationMsOf(msg.tx_duration_us))
         ELSE CounterError(cs, msg.tx_id)
    ELSE cs

\* BufWriter::write of one line: the buffer is flushed to the file first
\* when the line does not fit, then the line is buffered.
BufWrite(w, line) ==
    IF Len(w.buf) + 1 > BufCap
    THEN [buf |-> <<line>>, file |-> w.file \o w.buf]
    ELSE [buf |-> Append(w.buf, line), file |-> w.file]

\* Mutant of BufDrop: the writer goes away without its buffer being written.
BufDrop_NoFlush(w) == [buf |-> w.buf, file |-> w.file]

\* Drop of a BufWriter: what is buffered goes to the file.
BufDrop(w) == [buf |-> <<>>, file |-> w.file \o w.buf]

\* Every line written through a BufWriter so far, in order.
Written(w) == w.file \o w.buf

\* "<timestamp> <n_client> <tx_id> <duration_ms>" of transaction.log.
LogLine(n, msg) ==
    [ordinal |-> n, tx_id |-> msg.tx_id,
     duration_ms |-> DurationMsOf(msg.tx_duration_us)]

\* "<timestamp> <n_client> <tx_id> <error>" of error.log.
ErrorLine(n, msg) == [ordinal |-> n, tx_id |-> msg.tx_id, error |-> msg.error]

\* rx.recv() of the collector's loop: the message at the head of the channel.
SinkRecv(kind) ==
    /\ Running
    /\ sink_pc = "recv"
    /\ rx # <<>>
    /\ Head(rx).kind = kind
    /\ rx' = Tail(rx)
    /\ consumed' = Append(consumed, [msg |-> Head(rx), ramping_up |-> ramping_up])

\* TXMessageKind::COMMITTED
SinkCommitted ==
    /\ SinkRecv("COMMITTED")
    /\ LET msg == Head(rx)
           n == NClientAfter(client_ids, n_client, msg.client_id)
       IN /\ client_ids' = ClientIdsAfter(client_ids, msg.client_id)
          /\ n_client' = n
          /\ counters' = CountersAfter(ramping_up, counters, msg)
          /\ log_file' = BufWrite(log_file, LogLine(n, msg))
    /\ UNCHANGED <<engine_vars, client_vars, rx_counters, sink_pc, ramping_up,
                   error_file>>

\* Mutant of SinkError: the ERROR branch, a copy of the COMMITTED one, still
\* writes to log_file.
SinkError_ToLogFile ==
    /\ Running
    /\ sink_pc = "recv"
    /\ rx # <<>>
    /\ Head(rx).kind = "ERROR"
    /\ rx' = Tail(rx)
    /\ consumed' = Append(consumed, [msg |-> Head(rx), ramping_up |-> ramping_up])
    /\ LET msg == Head(rx)
           n == NClientAfter(client_ids, n_client, msg.client_id)
       IN /\ client_ids' = ClientIdsAfter(client_ids, msg.client_id)
          /\ n_client' = n
          /\ counters' = CountersAfter(ramping_up, counters, msg)
          /\ log_file' = BufWrite(log_file, ErrorLine(n, msg))
    /\ UNCHANGED <<engine_vars, client_vars, rx_counters, sink_pc, ramping_up,
                   error_file>>

\* TXMessageKind::ERROR
SinkError ==
    /\ SinkRecv("ERROR")
    /\ LET msg == Head(rx)
           n == NClientAfter(client_ids, n_client, msg.client_id)
       IN /\ client_ids' = ClientIdsAfter(client_ids, msg.client_id)
          /\ n_client' = n
          /\ counters' = CountersAfter(ramping_up, counters, msg)
          /\ error_file' = BufWrite(error_file, ErrorLine(n, msg))
    /\ UNCHANGED <<engine_vars, client_vars, rx_counters, sink_pc, ramping_up,
                   log_file>>

\* TXMessageKind::ENDOFRAMPUP
SinkEndOfRampup ==
    /\ SinkRecv("ENDOFRAMPUP")
    /\ ramping_up' = FALSE
    /\ UNCHANGED <<engine_vars, client_vars, rx_counters, sink_pc, counters,
                   client_ids, n_client, log_file, error_file>>

\* TXMessageKind::TERMINATE: break out of the loop.
SinkTerminate ==
    /\ SinkRecv("TERMINATE")
    /\ sink_pc' = "send"
    /\ UNCHANGED <<engine_vars, client_vars, rx_counters, counters, client_ids,
                   n_client, ramping_up, log_file, error_file>>

\* tx_counters.send(counters), after the loop.
SinkSendCounters ==
    /\ Running
    /\ sink_pc = "send"
    /\ rx_counters' = Append(rx_counters, counters)
    /\ sink_pc' = "drop"
    /\ UNCHANGED <<engine_vars, client_vars, rx, counters, client_ids, n_client,
                   ramping_up, log_file, error_file, consumed>>

\* End of the thread's closure: its locals are dropped, the two BufWriters
\* among them, and the thread ends.
SinkDrop ==
    /\ Running
    /\ sink_pc = "drop"
    /\ log_file' = BufDrop(log_file)
    /\ error_file' = BufDrop(error_file)
    /\ sink_pc' = "done"
    /\ UNCHANGED <<engine_vars, client_vars, rx, rx_counters, counters,
                   client_ids, n_client, ramping_up, consumed>>

\* -------------------------------------------------------------- the clients

\* Transactions executed by all clients so far.
RECURSIVE SumTx(_, _)
SumTx(f, n) == IF n = 0 THEN 0 ELSE f[n] + SumTx(f, n - 1)

\* Whether the model lets client c, the clients having executed the
\* transactions of f, find its deadline not yet passed: the transactions
\* executed, one more of c and one more of every other client that has not
\* ended stay within MaxMsgs.
WithinBudget(c, f) ==
    SumTx(f, args.client)
      + Cardinality({d \in 1..args.client \ {c} : client_pc[d] # "done"})
      < MaxMsgs

\* start.elapsed().as_millis() >= duration_ms as u128: the values the check
\* can take.  elapsed >= 0 makes it true whenever duration_ms is 0.
DeadlineCheck(c, f) ==
    IF duration_ms[c] > 0 /\ WithinBudget(c, f) THEN {TRUE, FALSE} ELSE {TRUE}

\* PgConnection::connect(&dsn) of the spawned task succeeds.
ClientConnect(c) ==
    /\ Running
    /\ client_pc[c] = "connect"
    /\ client_pc' = [client_pc EXCEPT ![c] = "loop"]
    /\ UNCHANGED <<engine_vars, n_tx, deadline_reached, rx, rx_counters,
                   sink_vars>>

\* PgConnection::connect(&dsn) fails: the error is printed and the task
\* calls std::process::exit(1), which ends every thread where it stands (no
\* message is sent, no destructor runs).
ClientConnectFailed(c) ==
    /\ Running
    /\ client_pc[c] = "connect"
    /\ exit_code' = 1
    /\ UNCHANGED <<args, overhead_ms, engine_pc, client_id, slept_ms,
                   duration_ms, spawn_ms, rampup_time_ms, total_time_ms,
                   self_counters,
                   client_vars, rx, rx_counters, sink_vars>>

\* Mutant of ClientLoop: an error leaves the loop as a passed deadline does.
ClientLoop_ErrorBreaks(c, m, expired) ==
    /\ Running
    /\ client_pc[c] = "loop"
    /\ rx' = Append(rx, m)
    /\ n_tx' = [n_tx EXCEPT ![c] = @ + 1]
    /\ deadline_reached' = [deadline_reached EXCEPT ![c] = expired]
    /\ client_pc' = [client_pc EXCEPT ![c] =
                        IF expired \/ m.kind = "ERROR" THEN "done" ELSE "loop"]
    /\ UNCHANGED <<engine_vars, rx_counters, sink_vars>>

\* One iteration of the client's loop: choose a transaction, execute it,
\* send its outcome, check the deadline.
ClientLoop(c, m, expired) ==
    /\ Running
    /\ client_pc[c] = "loop"
    /\ rx' = Append(rx, m)
    /\ n_tx' = [n_tx EXCEPT ![c] = @ + 1]
    /\ deadline_reached' = [deadline_reached EXCEPT ![c] = expired]
    /\ client_pc' = [client_pc EXCEPT ![c] = IF expired THEN "done" ELSE "loop"]
    /\ UNCHANGED <<engine_vars, rx_counters, sink_vars>>

\* execute_rw_transaction returned Ok(duration).
ClientCommitted(c) ==
    \E tx_id \in TxIds, d \in Durations(c) :
      \E expired \in DeadlineCheck(c, [n_tx EXCEPT ![c] = @ + 1]) :
        ClientLoop(c, TXMessage_committed(tx_id, c, d), expired)

\* execute_rw_transaction returned Err(error).
ClientError(c) ==
    \E tx_id \in TxIds :
      \E error \in Errors(tx_id),
         expired \in DeadlineCheck(c, [n_tx EXCEPT ![c] = @ + 1]) :
        ClientLoop(c, TXMessage_error(tx_id, c, error), expired)

\* --------------------------------------------------------------- the engine

\* rampup_ms and time_ms of run_benchmark.
rampup_ms == args.rampup * 1000
time_ms == args.time * 1000

\* Mutant of sleep_ms: the division rounds up.
sleep_ms_RoundedUp == (rampup_ms + args.client - 1) \div args.client

\* "Nap time before starting a new client": rampup_ms / args.client as u64.
sleep_ms == rampup_ms \div args.client

\* time_ms + rampup_ms - client_id as u64 * sleep_ms
DurationMs(n) == time_ms + rampup_ms - n * sleep_ms

\* Mutant of SpawnLoopDone: the end-of-rampup message leaves after the first
\* spawn.
SpawnLoopDone_AfterFirst == client_id >= 1

\* The for loop over 1..=args.client has run out.
SpawnLoopDone == client_id = args.client

\* Mutant of ClientFinished: the engine does not wait for the task.
ClientFinished_NoWait(c) == client_pc[c] # "unspawned"

\* benchmark_client.await returns: the task of client c has ended.
ClientFinished(c) == client_pc[c] = "done"

\* One iteration of the spawn loop: the deadline, the sleep, the spawn.
EngineSpawn ==
    /\ Running
    /\ engine_pc = "spawn"
    /\ client_id < args.client
    /\ LET n == client_id + 1 IN
         /\ client_id' = n
         /\ duration_ms' = [duration_ms EXCEPT ![n] = DurationMs(n)]
         /\ slept_ms' = slept_ms + sleep_ms
         /\ spawn_ms' = [spawn_ms EXCEPT ![n] = slept_ms + sleep_ms]
         /\ client_pc' = [client_pc EXCEPT ![n] = "connect"]
    /\ UNCHANGED <<exit_code, args, overhead_ms, engine_pc, rampup_time_ms,
                   total_time_ms,
                   self_counters, n_tx, deadline_reached, rx, rx_counters,
                   sink_vars>>

\* start.elapsed().as_millis() once the spawn loop is through: thread::sleep
\* sleeps at least the time it is given, the rest is this run's overhead.
Elapsed(slept) == slept + overhead_ms

\* tx.send(TXMessage::end_of_rampup()); self.rampup_time_ms = ...
EngineEndOfRampup ==
    /\ Running
    /\ engine_pc = "spawn"
    /\ SpawnLoopDone
    /\ rx' = Append(rx, TXMessage_end_of_rampup)
    /\ rampup_time_ms' = Elapsed(slept_ms)
    /\ engine_pc' = "await"
    /\ UNCHANGED <<exit_code, args, overhead_ms, client_id, slept_ms,
                   duration_ms, spawn_ms, total_time_ms,
                   self_counters, client_vars, rx_counters, sink_vars>>

\* for benchmark_client in benchmark_clients { benchmark_client.await }:
\* the loop over the join handles is through when every task has ended.
\* self.total_time_ms = start.elapsed().as_millis(): the clock that was
\* started before the spawn loop has seen the sleeps of the loop, the time
\* the last client had left to its deadline, and this run's overhead.
EngineAwait ==
    /\ Running
    /\ engine_pc = "await"
    /\ \A c \in 1..args.client : ClientFinished(c)
    /\ total_time_ms' = Elapsed(slept_ms + duration_ms[args.client])
    /\ engine_pc' = "terminate"
    /\ UNCHANGED <<exit_code, args, overhead_ms, client_id, slept_ms,
                   duration_ms, spawn_ms,
                   rampup_time_ms, self_counters, client_vars, rx, rx_counters,
                   sink_vars>>

\* Mutant of EngineTerminate: the engine goes on to the join without
\* sending the termination message.
EngineTerminate_NoSend ==
    /\ Running
    /\ engine_pc = "terminate"
    /\ engine_pc' = "join"
    /\ UNCHANGED <<exit_code, args, overhead_ms, client_id, slept_ms,
                   duration_ms, spawn_ms, total_time_ms,
                   rampup_time_ms, self_counters, client_vars, rx,
                   rx_counters, sink_vars>>

\* tx.send(TXMessage::terminate_data_collector())
EngineTerminate ==
    /\ Running
    /\ engine_pc = "terminate"
    /\ rx' = Append(rx, TXMessage_terminate_data_collector)
    /\ engine_pc' = "join"
    /\ UNCHANGED <<exit_code, args, overhead_ms, client_id, slept_ms,
                   duration_ms, spawn_ms, total_time_ms,
                   rampup_time_ms, self_counters, client_vars, rx_counters,
                   sink_vars>>

\* data_collector.join()
EngineJoin ==
    /\ Running
    /\ engine_pc = "join"
    /\ sink_pc = "done"
    /\ engine_pc' = "recv"
    /\ UNCHANGED <<exit_code, args, overhead_ms, client_id, slept_ms,
                   duration_ms, spawn_ms, total_time_ms,
                   rampup_time_ms, self_counters, client_vars, rx,
                   rx_counters, sink_vars>>

\* self.counters = rx_counters.recv().unwrap()
EngineRecvCounters ==
    /\ Running
    /\ engine_pc = "recv"
    /\ rx_counters # <<>>
    /\ self_counters' = Head(rx_counters)
    /\ rx_counters' = Tail(rx_counters)
    /\ engine_pc' = "done"
    /\ UNCHANGED <<exit_code, args, overhead_ms, client_id, slept_ms,
                   duration_ms, spawn_ms, total_time_ms,
                   rampup_time_ms, client_vars, rx, sink_vars>>

\* ------------------------------------------------------------- the database

\* Ids of the rows the database is loaded with (TPC-C has 10 districts per
\* warehouse and 3000 customers per district; the model keeps two of each).
WarehouseIds == {1, 2}
DistrictIds == {1, 2}
CustomerIds == {1, 2}
ItemIds == 1..MaxItem

\* The item id New-Order puts in place of the first one when rbk = 1.
InvalidItemId == 999999

\* A function with the row v at key k.
Override(f, k, v) == [x \in DOMAIN f \cup {k} |-> IF x = k THEN v ELSE f[x]]

\* A function without the keys K.
Without(f, K) == [x \in DOMAIN f \ K |-> f[x]]

\* Keys of the loaded database.  District 1 of every warehouse has the
\* orders 1 and 2, both undelivered; district 2 has the order 1, delivered.
LoadedKeys ==
    {<<"warehouse", w>> : w \in WarehouseIds}
      \cup {<<"district", w, d>> : w \in WarehouseIds, d \in DistrictIds}
      \cup {<<"customer", w, d, c>> :
              w \in WarehouseIds, d \in DistrictIds, c \in CustomerIds}
      \cup {<<"item", i>> : i \in ItemIds}
      \cup {<<"stock", w, i>> : w \in WarehouseIds, i \in ItemIds}
      \cup {<<"orders", w, 1, o>> : w \in WarehouseIds, o \in {1, 2}}
      \cup {<<"orders", w, 2, 1>> : w \in WarehouseIds}
      \cup {<<"new_order", w, 1, o>> : w \in WarehouseIds, o \in {1, 2}}
      \cup {<<"order_line", w, 1, o, n>> :
              w \in WarehouseIds, o \in {1, 2}, n \in {1, 2}}
      \cup {<<"order_line", w, 2, 1, 1>> : w \in WarehouseIds}

\* The row the loaded database has at a key (the columns the transactions
\* read or write; a carrier or a delivery date of 0 is NULL).  A district
\* is loaded with the d_ytd 30000.00 and a warehouse with the w_ytd
\* 300000.00 of its ten districts: here 3 a district, for the districts
\* the model keeps.
LoadedRow(k) ==
    CASE k[1] = "warehouse" -> [w_ytd |-> 3 * Cardinality(DistrictIds)]
      [] k[1] = "district" ->
            [d_next_o_id |-> IF k[3] = 1 THEN 3 ELSE 2, d_ytd |-> 3]
      [] k[1] = "customer" ->
            [c_last |-> k[4], c_balance |-> 0, c_delivery_cnt |-> 0,
             c_ytd_payment |-> 0]
      [] k[1] = "item" -> [i_price |-> k[2]]
      [] k[1] = "stock" ->
            [s_quantity |-> IF k[3] = 1 THEN 12 ELSE 20, s_ytd |-> 0,
             s_order_cnt |-> 0,
             s_remote_cnt |-> 0]
      [] k[1] = "orders" ->
            [o_c_id |-> k[4], o_carrier_id |-> IF k[3] = 1 THEN 0 ELSE 1,
             o_ol_cnt |-> IF k[3] = 1 THEN 2 ELSE 1, o_all_local |-> 1]
      [] k[1] = "new_order" -> [no_o_id |-> k[4]]
      [] k[1] = "order_line" ->
            [ol_i_id |-> k[5], ol_supply_w_id |-> k[2], ol_quantity |-> 2,
             ol_amount |-> 2 * k[5], ol_delivery_d |-> IF k[3] = 1 THEN 0 ELSE 1]

LoadedDb == [k \in LoadedKeys |-> LoadedRow(k)]

\* Databases a run can be pointed at: the loaded one, and loaded ones that
\* lost rows afterwards (the order of a new_order row, the lines of an
\* order, a district, a customer, a stock row).
Databases ==
    {LoadedDb,
     Without(LoadedDb, {<<"orders", 1, 1, 1>>}),
     Without(LoadedDb, {<<"order_line", 1, 1, 1, n>> : n \in {1, 2}}),
     Without(LoadedDb, {<<"district", 1, 2>>, <<"customer", 1, 1, 2>>,
                        <<"stock", 1, 2>>, <<"warehouse", 2>>}),
     Without(LoadedDb, {<<"new_order", w, 1, o>> :
                          w \in WarehouseIds, o \in {1, 2}})}

\* A session that executes no routine.
IdleSession ==
    [pc |-> "idle", tx_id |-> 0, result |-> "none", error |-> "",
     n_begin |-> 0, n_commit |-> 0, n_rollback |-> 0,
     put |-> <<>>, del |-> {},
     warehouse_id |-> 0, district_id |-> 0, carrier_id |-> 0, order_id |-> 0,
     customer_id |-> 0, total_ol_amount |-> 0,
     ol_cnt |-> 0, rbk |-> 0, ol_all_local |-> 1, item_ids |-> <<>>,
     rbk_drawn |-> 0, order_line_data |-> <<>>, ol_number |-> 0, o_id |-> 0,
     i_price |-> 0, s_quantity |-> 0,
     c_w_id |-> 0, c_d_id |-> 0, c_last |-> 0, h_amount |-> 0]

\* The keys session s has written or deleted and not yet committed.
WriteSet(s) == DOMAIN session[s].put \cup session[s].del

\* The row of key k is locked by the open transaction of another session.
Locked(s, k) == \E t \in DOMAIN session \ {s} : k \in WriteSet(t)

\* What a statement of session s sees: the committed rows and, over them,
\* the session's own uncommitted writes.
Visible(s) ==
    [k \in (DOMAIN db \cup DOMAIN session[s].put) \ session[s].del |->
        IF k \in DOMAIN session[s].put THEN session[s].put[k] ELSE db[k]]

\* The session record after an INSERT or UPDATE of the row at k, a DELETE of
\* the rows K.
Put(ss, k, v) == [ss EXCEPT !.put = Override(@, k, v), !.del = @ \ {k}]

\* Mutant of Delete: the DELETE removes no row.
Delete_Nothing(ss, K) == ss

Delete(ss, K) == [ss EXCEPT !.put = Without(@, K), !.del = @ \cup K]

\* The database after the COMMIT of a session's transaction.
Committed(d, ss) ==
    [k \in (DOMAIN d \cup DOMAIN ss.put) \ ss.del |->
        IF k \in DOMAIN ss.put THEN ss.put[k] ELSE d[k]]


\* ---------------------------------------------- the business transactions

\* The variables of the engine, the clients and the collector.
run_vars == <<engine_vars, client_vars, rx, rx_counters, sink_vars>>

\* A step of session s alone, which leaves the committed rows as they are.
SessionStep(s, ss) ==
    /\ session' = [session EXCEPT ![s] = ss]
    /\ UNCHANGED <<run_vars, tpcc, db, cmd_vars>>

\* The session can start a routine: execute_rw_transaction is called (the
\* model follows one call per session, from each of the Databases).
CanExecute(s) == session[s].pc = "idle"

\* The session record at the call of execute_rw_transaction for the
\* transaction id, with the warehouse id drawn for it.
Called(ss, tx_id, w) ==
    [IdleSession EXCEPT !.pc = "begin", !.tx_id = tx_id, !.warehouse_id = w]

\* The session record once the routine has returned or panicked: its locals
\* are gone with the transaction handle and its uncommitted writes.
Returned(ss, result, error) ==
    [IdleSession EXCEPT !.pc = "returned", !.tx_id = ss.tx_id,
                        !.result = result, !.error = error,
                        !.n_begin = ss.n_begin, !.n_commit = ss.n_commit,
                        !.n_rollback = ss.n_rollback,
                        !.warehouse_id = ss.warehouse_id,
                        !.carrier_id = ss.carrier_id,
                        !.rbk_drawn = ss.rbk_drawn]

\* Mutant of Rollbacked: the routine reports the rolled back transaction as
\* it reports a committed one.
Rollbacked_ReturnsOk(ss, error) ==
    Returned([ss EXCEPT !.n_rollback = @ + 1], "Ok", "")

\* transaction.rollback().await?; return Err(Box::new(TPCCError(...)))
Rollbacked(ss, error) ==
    Returned([ss EXCEPT !.n_rollback = @ + 1], "Err", error)

\* A panic inside the routine: the unwinding drops the transaction handle,
\* whose drop sends ROLLBACK, and nothing is returned.
Panicked(ss) == Returned([ss EXCEPT !.n_rollback = @ + 1], "panic", "")

\* Mutant of Blocked: no statement waits for another session's transaction.
Blocked_Never(s, k) == FALSE

\* An UPDATE or DELETE of the row at k has to wait: the row is there and
\* another session's open transaction has written it.
Blocked(s, k) == k \in DOMAIN db /\ Locked(s, k)

\* client.transaction().await? succeeds: BEGIN.
TxBegin(s) ==
    /\ session[s].pc = "begin"
    /\ SessionStep(s, [session[s] EXCEPT
                         !.n_begin = @ + 1,
                         !.pc = CASE session[s].tx_id = 1 -> "d_select"
                                  [] session[s].tx_id = 2 -> "n_district"
                                  [] session[s].tx_id = 3 -> "p_warehouse"
                                  [] session[s].tx_id = 4 -> "os_read"
                                  [] session[s].tx_id = 5 -> "sl_read"])

\* client.transaction().await? fails: no transaction is open, `?` returns
\* the driver's error.
TxBeginFailed(s) ==
    /\ session[s].pc = "begin"
    /\ SessionStep(s, Returned(session[s], "Err", ConnectionError))

\* The positions of a routine at a statement of its open transaction.
StatementPcs ==
    {"d_select", "d_delete", "d_orders", "d_lines", "d_sum", "d_customer",
     "n_district", "n_insert", "n_item", "n_stock", "p_warehouse", "p_district",
     "p_customer", "os_read", "sl_read"}

\* A query(...).await? or rollback().await? of the open transaction fails:
\* `?` returns the driver's error, and the transaction ends by the ROLLBACK
\* that was sent or that the drop of the handle sends.
StatementFailed(s) ==
    /\ session[s].pc \in StatementPcs
    /\ SessionStep(s, Rollbacked(session[s], ConnectionError))

\* transaction.commit().await? succeeds: the writes of the transaction are
\* the database's, the routine returns Ok(elapsed).
TxCommit(s) ==
    /\ session[s].pc = "commit"
    /\ db' = Committed(db, session[s])
    /\ session' = [session EXCEPT
                     ![s] = Returned([@ EXCEPT !.n_commit = @ + 1], "Ok", "")]
    /\ UNCHANGED <<run_vars, tpcc, cmd_vars>>

\* transaction.commit().await? fails: `?` returns the driver's error; the
\* server has committed the transaction or has not.
TxCommitFailed(s) ==
    /\ session[s].pc = "commit"
    /\ db' \in {db, Committed(db, session[s])}
    /\ session' = [session EXCEPT
                     ![s] = Returned([@ EXCEPT !.n_commit = @ + 1], "Err",
                                     ConnectionError)]
    /\ UNCHANGED <<run_vars, tpcc, cmd_vars>>


\* The carrier ids Delivery draws from (1..=10 in the code; the model draws
\* one that no loaded order has).
CarrierIds == {2}

\* Keys of the rows of a table that a view v has for warehouse w, district
\* d and, for order lines, order o.
NewOrderKeys(v, w, d) ==
    {k \in DOMAIN v : k[1] = "new_order" /\ k[2] = w /\ k[3] = d}
OrderLineKeys(v, w, d, o) ==
    {k \in DOMAIN v : k[1] = "order_line" /\ k[2] = w /\ k[3] = d /\ k[4] = o}

\* SUM(ol_amount * ol_quantity) over the rows of v at the keys K.
RECURSIVE SumAmount(_, _)
SumAmount(v, K) ==
    IF K = {} THEN 0
    ELSE LET k == CHOOSE x \in K : TRUE
         IN v[k].ol_amount * v[k].ol_quantity + SumAmount(v, K \ {k})

\* The session record when Delivery goes on to the next district of its
\* for loop, or to the COMMIT after the last one.
NextDistrict(ss) ==
    IF ss.district_id + 1 \in DistrictIds
    THEN [ss EXCEPT !.pc = "d_select", !.district_id = @ + 1]
    ELSE [ss EXCEPT !.pc = "commit"]

\* execute_rw_transaction with transaction.id = 1 and the draw of Delivery.
DeliveryDraw(s) ==
    /\ CanExecute(s)
    /\ \E w \in tpcc.start_id..tpcc.end_id, carrier_id \in CarrierIds :
         SessionStep(s, [Called(session[s], 1, w) EXCEPT
                           !.carrier_id = carrier_id, !.district_id = 1])

\* SELECT no_o_id FROM new_order ... ORDER BY no_o_id ASC LIMIT 1
DeliverySelect(s) ==
    /\ session[s].pc = "d_select"
    /\ LET ss == session[s]
           rows == NewOrderKeys(Visible(s), ss.warehouse_id, ss.district_id)
       IN IF rows = {}
          THEN SessionStep(s, NextDistrict(ss))
          ELSE LET k == CHOOSE x \in rows : \A y \in rows : x[4] <= y[4]
               IN SessionStep(s, [ss EXCEPT !.order_id = k[4],
                                            !.pc = "d_delete"])

\* DELETE FROM new_order WHERE no_o_id = $1 AND no_w_id = $2 AND no_d_id = $3
DeliveryDelete(s) ==
    /\ session[s].pc = "d_delete"
    /\ LET ss == session[s]
           k == <<"new_order", ss.warehouse_id, ss.district_id, ss.order_id>>
       IN /\ ~Blocked(s, k)
          /\ SessionStep(s, [(IF k \in DOMAIN Visible(s)
                              THEN Delete(ss, {k}) ELSE ss)
                               EXCEPT !.pc = "d_orders"])

\* UPDATE orders SET o_carrier_id = $1 ... RETURNING o_c_id, and the
\* rollback when it returns no row.
DeliveryOrders(s) ==
    /\ session[s].pc = "d_orders"
    /\ LET ss == session[s]
           k == <<"orders", ss.warehouse_id, ss.district_id, ss.order_id>>
           v == Visible(s)
       IN /\ ~Blocked(s, k)
          /\ IF k \notin DOMAIN v
             THEN SessionStep(s, Rollbacked(ss,
                    "Delivery transaction rollbacked. Order not found."))
             ELSE SessionStep(s,
                    [Put(ss, k, [v[k] EXCEPT !.o_carrier_id = ss.carrier_id])
                       EXCEPT !.customer_id = v[k].o_c_id, !.pc = "d_lines"])

\* UPDATE order_line SET ol_delivery_d = current_timestamp WHERE ...
RECURSIVE PutDelivered(_, _, _)
PutDelivered(ss, v, K) ==
    IF K = {} THEN ss
    ELSE LET k == CHOOSE x \in K : TRUE
         IN PutDelivered(Put(ss, k, [v[k] EXCEPT !.ol_delivery_d = 1]), v,
                         K \ {k})

DeliveryLines(s) ==
    /\ session[s].pc = "d_lines"
    /\ LET ss == session[s]
           v == Visible(s)
           K == OrderLineKeys(v, ss.warehouse_id, ss.district_id, ss.order_id)
       IN /\ \A k \in K : ~Blocked(s, k)
          /\ SessionStep(s, [PutDelivered(ss, v, K) EXCEPT !.pc = "d_sum"])

\* SELECT SUM(ol_amount * ol_quantity) AS total_ol_amount ...: an aggregate
\* returns one row whatever it sums, so row_amount.len() == 0 is never true;
\* over no order line the sum is NULL, and row_amount[0].get(...) of a NULL
\* as f64 panics.
DeliverySum(s) ==
    /\ session[s].pc = "d_sum"
    /\ LET ss == session[s]
           v == Visible(s)
           K == OrderLineKeys(v, ss.warehouse_id, ss.district_id, ss.order_id)
       IN IF K = {}
          THEN SessionStep(s, Panicked(ss))
          ELSE SessionStep(s, [ss EXCEPT !.total_ol_amount = SumAmount(v, K),
                                         !.pc = "d_customer"])

\* UPDATE customer SET c_delivery_cnt = c_delivery_cnt + 1,
\*                     c_balance = c_balance + $1 WHERE ...
DeliveryCustomer(s) ==
    /\ session[s].pc = "d_customer"
    /\ LET ss == session[s]
           v == Visible(s)
           k == <<"customer", ss.warehouse_id, ss.district_id, ss.customer_id>>
       IN /\ ~Blocked(s, k)
          /\ SessionStep(s,
               NextDistrict(
                 IF k \in DOMAIN v
                 THEN Put(ss, k, [v[k] EXCEPT
                                    !.c_delivery_cnt = @ + 1,
                                    !.c_balance = @ + ss.total_ol_amount])
                 ELSE ss))


\* The draws of New-Order: the number of lines (5..=15 in the code), rbk
\* and x (1..=100 in the code: 1 or another value), the quantity of a line
\* (1..=10 in the code).
OlCnts == 1..MaxOlCnt
RbkDraws == {1, 2}
XDraws == {1, 2}
Quantities == {3}

\* execute_rw_transaction with transaction.id = 2 and the first draws of
\* New-Order.
NewOrderDraw(s) ==
    /\ CanExecute(s)
    /\ \E w \in tpcc.start_id..tpcc.end_id, district_id \in DistrictIds,
          customer_id \in CustomerIds, ol_cnt \in OlCnts, rbk \in RbkDraws :
         SessionStep(s, [Called(session[s], 2, w) EXCEPT
                           !.pc = "n_gen", !.district_id = district_id,
                           !.customer_id = customer_id, !.ol_cnt = ol_cnt,
                           !.rbk = rbk, !.rbk_drawn = rbk, !.ol_all_local = 1,
                           !.ol_number = 1])

\* Mutant of LineItemId: the corrupted line gets the id of a real item.
LineItemId_Valid(rbk, ol_i_id) == ol_i_id

\* The ol_i_id of the line that is being built: the id drawn, or 999_999
\* in its place when rbk is 1.
LineItemId(rbk, ol_i_id) == IF rbk = 1 THEN InvalidItemId ELSE ol_i_id

\* The values ol_supply_w_id can get for a line of an order of warehouse
\* w, x being drawn: w, or with x = 1 and more than one warehouse what the
\* while loop ends with, a warehouse of the run other than w.
SupplyWarehouses(w, x) ==
    IF (tpcc.end_id - tpcc.start_id) > 0 /\ x = 1
    THEN (tpcc.start_id..tpcc.end_id) \ {w}
    ELSE {w}

\* Mutant of AllLocalAfter: a remote line leaves ol_all_local as it is.
AllLocalAfter_Unchanged(ol_all_local, x) == ol_all_local

\* ol_all_local after the draw of x for a line.
AllLocalAfter(ol_all_local, x) ==
    IF (tpcc.end_id - tpcc.start_id) > 0 /\ x = 1 THEN 0 ELSE ol_all_local

\* Mutant of FreshItems: the draw of the item id is not repeated when the
\* id is one of an earlier line.
FreshItems_Any(item_ids) == ItemIds

\* The ids the loop "loop { ol_i_id = gen_range(1..=100_000); if
\* !item_ids.contains(&ol_i_id) { ...; break; } }" can end with.
FreshItems(item_ids) ==
    ItemIds \ {item_ids[i] : i \in 1..Len(item_ids)}

\* One iteration of "for ol_number in 1..=ol_cnt": the line's quantity, an
\* item id that no earlier line of the order drew (what the loop over
\* item_ids ends with), the rbk corruption, the supplying warehouse.
NewOrderLine(s) ==
    /\ session[s].pc = "n_gen"
    /\ LET ss == session[s]
       IN \E ol_quantity \in Quantities, ol_i_id \in FreshItems(ss.item_ids),
             x \in XDraws :
            \E ol_supply_w_id \in SupplyWarehouses(ss.warehouse_id, x) :
              SessionStep(s,
                [ss EXCEPT
                   !.item_ids = Append(@, ol_i_id),
                   !.rbk = IF @ = 1 THEN 0 ELSE @,
                   !.ol_all_local = AllLocalAfter(@, x),
                   !.order_line_data =
                       Append(@, [ol_number |-> ss.ol_number,
                                  ol_supply_w_id |-> ol_supply_w_id,
                                  ol_quantity |-> ol_quantity,
                                  ol_i_id |-> LineItemId(ss.rbk, ol_i_id)]),
                   !.ol_number = IF ss.ol_number = ss.ol_cnt THEN 1 ELSE @ + 1,
                   !.pc = IF ss.ol_number = ss.ol_cnt THEN "begin" ELSE @])

\* SELECT w_tax FROM warehouse; UPDATE district SET d_next_o_id =
\* d_next_o_id + 1 ... RETURNING d_tax, d_next_o_id AS o_id, the rollback
\* when it returns no row, and o_id -= 1.
NewOrderDistrict(s) ==
    /\ session[s].pc = "n_district"
    /\ LET ss == session[s]
           v == Visible(s)
           k == <<"district", ss.warehouse_id, ss.district_id>>
       IN /\ ~Blocked(s, k)
          /\ IF k \notin DOMAIN v
             THEN SessionStep(s, Rollbacked(ss,
                    "New-order transaction rollbacked. District not found."))
             ELSE SessionStep(s,
                    [Put(ss, k, [v[k] EXCEPT !.d_next_o_id = @ + 1])
                       EXCEPT !.o_id = (v[k].d_next_o_id + 1) - 1,
                              !.pc = "n_insert"])

\* SELECT ... FROM customer; INSERT INTO orders; INSERT INTO new_order.
NewOrderInsert(s) ==
    /\ session[s].pc = "n_insert"
    /\ LET ss == session[s]
           w == ss.warehouse_id
           d == ss.district_id
       IN SessionStep(s,
            [Put(Put(ss, <<"orders", w, d, ss.o_id>>,
                     [o_c_id |-> ss.customer_id, o_carrier_id |-> 0,
                      o_ol_cnt |-> ss.ol_cnt,
                      o_all_local |-> ss.ol_all_local]),
                 <<"new_order", w, d, ss.o_id>>, [no_o_id |-> ss.o_id])
               EXCEPT !.pc = "n_item"])

\* Mutant of StockQuantity: the quantity is never refilled.
StockQuantity_NoRefill(s_quantity, ol_quantity) == s_quantity - ol_quantity

\* s_quantity after an order line of the quantity.
StockQuantity(s_quantity, ol_quantity) ==
    IF (s_quantity - ol_quantity) > 10
    THEN s_quantity - ol_quantity
    ELSE s_quantity - ol_quantity + 91

\* One iteration of the loop over order_line_data, up to the UPDATE: SELECT
\* ... FROM item and the rollback when the item is not found; the stock
\* query, a plain SELECT that waits for no lock, whose first row
\* row_stock[0] is read unchecked (a panic when there is none); the new
\* s_quantity is computed by the client from the value read.
NewOrderItem(s) ==
    /\ session[s].pc = "n_item"
    /\ LET ss == session[s]
           v == Visible(s)
           line == ss.order_line_data[ss.ol_number]
           item == <<"item", line.ol_i_id>>
           stock == <<"stock", line.ol_supply_w_id, line.ol_i_id>>
       IN IF item \notin DOMAIN v
          THEN SessionStep(s, Rollbacked(ss,
                 "New-order transaction rollbacked. Item not found."))
          ELSE IF stock \notin DOMAIN v
          THEN SessionStep(s, Panicked(ss))
          ELSE SessionStep(s,
                 [ss EXCEPT
                    !.i_price = v[item].i_price,
                    !.s_quantity = StockQuantity(v[stock].s_quantity,
                                                 line.ol_quantity),
                    !.pc = "n_stock"])

\* The stock row after UPDATE stock SET s_quantity = $3, s_ytd = s_ytd + $4,
\* s_order_cnt = s_order_cnt + 1, s_remote_cnt = s_remote_cnt + $5: the
\* s_quantity the client computed, the other columns from the row.
StockUpdate(row, s_quantity, line, warehouse_id) ==
    [s_quantity |-> s_quantity,
     s_ytd |-> row.s_ytd + line.ol_quantity,
     s_order_cnt |-> row.s_order_cnt + 1,
     s_remote_cnt |-> row.s_remote_cnt +
        (IF line.ol_supply_w_id # warehouse_id THEN 1 ELSE 0)]

\* The rest of the iteration: UPDATE stock, which waits while another
\* session's open transaction has written the row and then updates the row
\* as that transaction committed it; INSERT INTO order_line.
NewOrderStock(s) ==
    /\ session[s].pc = "n_stock"
    /\ LET ss == session[s]
           v == Visible(s)
           line == ss.order_line_data[ss.ol_number]
           stock == <<"stock", line.ol_supply_w_id, line.ol_i_id>>
       IN /\ ~Blocked(s, stock)
          /\ SessionStep(s,
               [Put(Put(ss, stock,
                        StockUpdate(v[stock], ss.s_quantity, line,
                                    ss.warehouse_id)),
                    <<"order_line", ss.warehouse_id, ss.district_id, ss.o_id,
                      line.ol_number>>,
                    [ol_i_id |-> line.ol_i_id,
                     ol_supply_w_id |-> line.ol_supply_w_id,
                     ol_quantity |-> line.ol_quantity,
                     ol_amount |-> ss.i_price * line.ol_quantity,
                     ol_delivery_d |-> 0])
                  EXCEPT !.ol_number = @ + 1,
                         !.pc = IF ss.ol_number = Len(ss.order_line_data)
                                THEN "commit" ELSE "n_item"])


\* The draws of Payment and Order-Status: x and y (1..=100 in the code: a
\* value on each side of the thresholds 85 and 60), the last name (the
\* name of customer 1, and a name no customer has; 0 stands for ""), the
\* amount (1.00..=5000.00 in the code).
XPayment == {85, 86}
YDraws == {60, 61}
LastNames == {1, 3}
Amounts == {5}

\* c_w_id and c_d_id of Payment: the home warehouse and district with
\* x <= 85, otherwise any district and, with more than one warehouse,
\* another warehouse of the run.
CustomerWarehouses(w, x) ==
    IF x <= 85 THEN {w}
    ELSE IF (tpcc.end_id - tpcc.start_id) > 0
         THEN (tpcc.start_id..tpcc.end_id) \ {w}
         ELSE {w}
CustomerDistricts(d, x) == IF x <= 85 THEN {d} ELSE DistrictIds

\* c_last: gen_last(t) with y <= 60, "" otherwise.
CustomerLasts(y) == IF y <= 60 THEN LastNames ELSE {0}

\* SELECT c_id FROM customer WHERE c_w_id = $1 AND c_d_id = $2 AND
\* c_last = $3 ORDER BY c_first ASC: the ids found, and row_c_id[n / 2].
CustomersByLast(v, w, d, c_last) ==
    {k[4] : k \in {x \in DOMAIN v : /\ x[1] = "customer" /\ x[2] = w
                                    /\ x[3] = d /\ v[x].c_last = c_last}}
Middle(ids) ==
    CHOOSE c \in ids :
      Cardinality({x \in ids : x < c}) = Cardinality(ids) \div 2

\* execute_rw_transaction with transaction.id = 3 and the draws of Payment.
PaymentDraw(s) ==
    /\ CanExecute(s)
    /\ \E w \in tpcc.start_id..tpcc.end_id, x \in XPayment, y \in YDraws,
          district_id \in DistrictIds, c_id \in CustomerIds,
          h_amount \in Amounts :
         \E c_w_id \in CustomerWarehouses(w, x),
            c_d_id \in CustomerDistricts(district_id, x),
            c_last \in CustomerLasts(y) :
           SessionStep(s, [Called(session[s], 3, w) EXCEPT
                             !.district_id = district_id, !.c_w_id = c_w_id,
                             !.c_d_id = c_d_id, !.c_last = c_last,
                             !.customer_id = c_id, !.h_amount = h_amount])

\* UPDATE warehouse SET w_ytd = w_ytd + $1 ... RETURNING, and the rollback
\* when it returns no row.
PaymentWarehouse(s) ==
    /\ session[s].pc = "p_warehouse"
    /\ LET ss == session[s]
           v == Visible(s)
           k == <<"warehouse", ss.warehouse_id>>
       IN /\ ~Blocked(s, k)
          /\ IF k \notin DOMAIN v
             THEN SessionStep(s, Rollbacked(ss,
                    "Payment transaction rollbacked. Warehouse not found."))
             ELSE SessionStep(s,
                    [Put(ss, k, [v[k] EXCEPT !.w_ytd = @ + ss.h_amount])
                       EXCEPT !.pc = "p_district"])

\* Mutant of DistrictYtd: the payment is not added to the district.
DistrictYtd_Unchanged(d_ytd, h_amount) == d_ytd

\* d_ytd + $1
DistrictYtd(d_ytd, h_amount) == d_ytd + h_amount

\* UPDATE district SET d_ytd = d_ytd + $1 ... RETURNING, and the rollback
\* when it returns no row.
PaymentDistrict(s) ==
    /\ session[s].pc = "p_district"
    /\ LET ss == session[s]
           v == Visible(s)
           k == <<"district", ss.warehouse_id, ss.district_id>>
       IN /\ ~Blocked(s, k)
          /\ IF k \notin DOMAIN v
             THEN SessionStep(s, Rollbacked(ss,
                    "Payment transaction rollbacked. District not found."))
             ELSE SessionStep(s,
                    [Put(ss, k, [v[k] EXCEPT
                                    !.d_ytd = DistrictYtd(@, ss.h_amount)])
                       EXCEPT !.pc = "p_customer"])

\* The lookup of the customer by last name when y <= 60 and its rollback,
\* SELECT ... FROM customer and its rollback, UPDATE customer (the same
\* balance and payment count for either c_credit), INSERT INTO history.
PaymentCustomer(s) ==
    /\ session[s].pc = "p_customer"
    /\ LET ss == session[s]
           v == Visible(s)
           ids == CustomersByLast(v, ss.c_w_id, ss.c_d_id, ss.c_last)
           c_id == IF ss.c_last # 0 /\ ids # {} THEN Middle(ids)
                   ELSE ss.customer_id
           k == <<"customer", ss.c_w_id, ss.c_d_id, c_id>>
           h == <<"history",
                  Cardinality({x \in DOMAIN v : x[1] = "history"}) + 1>>
       IN IF ss.c_last # 0 /\ ids = {}
          THEN SessionStep(s, Rollbacked(ss,
            "Payment transaction rollbacked. Customer not found (c_last)."))
          ELSE IF k \notin DOMAIN v
          THEN SessionStep(s, Rollbacked(ss,
                 "Payment transaction rollbacked. Customer not found."))
          ELSE
            /\ ~Blocked(s, k)
            /\ SessionStep(s,
                 [Put(Put(ss, k, [v[k] EXCEPT
                                    !.c_balance = @ - ss.h_amount,
                                    !.c_ytd_payment = @ + 1]),
                      h, [h_c_id |-> c_id, h_c_d_id |-> ss.c_d_id,
                          h_c_w_id |-> ss.c_w_id, h_d_id |-> ss.district_id,
                          h_w_id |-> ss.warehouse_id,
                          h_amount |-> ss.h_amount])
                    EXCEPT !.pc = "commit"])

\* execute_rw_transaction with transaction.id = 4 and the draws of
\* Order-Status.
OrderStatusDraw(s) ==
    /\ CanExecute(s)
    /\ \E w \in tpcc.start_id..tpcc.end_id, y \in YDraws,
          district_id \in DistrictIds, c_id \in CustomerIds :
         \E c_last \in CustomerLasts(y) :
           SessionStep(s, [Called(session[s], 4, w) EXCEPT
                             !.district_id = district_id, !.c_last = c_last,
                             !.customer_id = c_id])

\* The statements of Order-Status, all of them SELECTs: the lookup by last
\* name when y <= 60 and its rollback, the customer, the customer's latest
\* order and its rollback, the order's lines.
OrderStatusRead(s) ==
    /\ session[s].pc = "os_read"
    /\ LET ss == session[s]
           v == Visible(s)
           ids == CustomersByLast(v, ss.warehouse_id, ss.district_id,
                                  ss.c_last)
           c_id == IF ss.c_last # 0 /\ ids # {} THEN Middle(ids)
                   ELSE ss.customer_id
           row_order == {k \in DOMAIN v :
                           /\ k[1] = "orders" /\ k[2] = ss.warehouse_id
                           /\ k[3] = ss.district_id /\ v[k].o_c_id = c_id}
       IN IF ss.c_last # 0 /\ ids = {}
          THEN SessionStep(s, Rollbacked(ss,
       "Order-Status transaction rollbacked. Customer not found (c_last)."))
          ELSE IF row_order = {}
          THEN SessionStep(s, Rollbacked(ss,
                 "Order-Status transaction rollbacked. Order not found."))
          ELSE SessionStep(s, [ss EXCEPT !.pc = "commit"])

\* execute_rw_transaction with transaction.id = 5 and the draws of
\* Stock-Level (the threshold only filters what a SELECT returns).
StockLevelDraw(s) ==
    /\ CanExecute(s)
    /\ \E w \in tpcc.start_id..tpcc.end_id, district_id \in DistrictIds :
         SessionStep(s, [Called(session[s], 5, w) EXCEPT
                           !.district_id = district_id])

\* Mutant of StockLevelRead: d_next_o_id is read as New-Order reads it, by
\* UPDATE district SET d_next_o_id = d_next_o_id + 1 ... RETURNING.
StockLevelRead_UpdateReturning(s) ==
    /\ session[s].pc = "sl_read"
    /\ LET ss == session[s]
           v == Visible(s)
           k == <<"district", ss.warehouse_id, ss.district_id>>
       IN IF k \notin DOMAIN v
          THEN SessionStep(s, Rollbacked(ss,
                 "Stock-Level transaction rollbacked. District not found."))
          ELSE SessionStep(s,
                 [Put(ss, k, [v[k] EXCEPT !.d_next_o_id = @ + 1])
                    EXCEPT !.pc = "commit"])

\* The statements of Stock-Level, all of them SELECTs: d_next_o_id of the
\* district and its rollback, the items of the last orders, their stock.
StockLevelRead(s) ==
    /\ session[s].pc = "sl_read"
    /\ LET ss == session[s]
           k == <<"district", ss.warehouse_id, ss.district_id>>
       IN IF k \notin DOMAIN Visible(s)
          THEN SessionStep(s, Rollbacked(ss,
                 "Stock-Level transaction rollbacked. District not found."))
          ELSE SessionStep(s, [ss EXCEPT !.pc = "commit"])


\* The match on the result of execute_rw_transaction in the client's loop:
\* Ok(duration) is sent as a COMMITTED message, Err(error) as an ERROR one;
\* the deadline has passed when the one call the model follows returns.
ClientOutcome(s) ==
    /\ session[s].pc = "returned"
    /\ session[s].result \in {"Ok", "Err"}
    /\ \E d \in Durations(s) :
         ClientLoop(s,
                    IF session[s].result = "Ok"
                    THEN TXMessage_committed(session[s].tx_id, s, d)
                    ELSE TXMessage_error(session[s].tx_id, s,
                                         session[s].error),
                    TRUE)
    /\ session' = [session EXCEPT ![s].pc = "sent"]
    /\ UNCHANGED <<tpcc, db, cmd_vars>>

\* ------------------------------------------------------------- the commands

\* The lines of terminal::start_msg that name the stages of `init` and the
\* aggregation of `run`.
MsgSchema == "Executing database DDLs"
MsgPreLoad == "Pre-loading operations"
MsgLoad == "Data loading"
MsgPrimaryKeys == "Primary keys creation"
MsgForeignKeys == "Foreign keys creation"
MsgIndexes == "Additional indexes creation"
MsgVacuum == "Vacuuming tables"
MsgCheckpoint == "Forcing checkpoint"
MsgAggregate == "Aggregating data"

\* A method of Executor that main calls on its chain, at the position `at`:
\* it prints its start messages, then either returns self (main goes on
\* at `to`) or, on the error of a connection or of a statement, ends the
\* process with std::process::exit(1).
Method(at, msgs, to) ==
    /\ Running
    /\ main_pc = at
    /\ stages' = stages \o msgs
    /\ \E ok \in BOOLEAN :
         IF ok
         THEN main_pc' = to /\ exit_code' = exit_code
         ELSE main_pc' = main_pc /\ exit_code' = 1
    /\ UNCHANGED <<args, overhead_ms, engine_pc, client_id, slept_ms,
                   duration_ms, spawn_ms, rampup_time_ms, total_time_ms,
                   self_counters, client_vars, rx, rx_counters, sink_vars,
                   db_vars, cmd_args, jobs, executed, tables, target_dir,
                   summary>>

\* .init_db_schema()
MainInitDbSchema == Method("init_db_schema", <<MsgSchema>>, "load_data")

\* .load_data(env.init_args.scalefactor, env.init_args.jobs): the item
\* table is pre-loaded, then the jobs load the warehouses.
MainLoadData ==
    Method("load_data", <<MsgPreLoad, MsgLoad>>, "add_primary_keys")

\* .add_primary_keys(env.init_args.jobs)
MainAddPrimaryKeys ==
    Method("add_primary_keys", <<MsgPrimaryKeys>>, "add_foreign_keys")

\* .add_foreign_keys(...): "Don't do anything if no_fkey is true".
MainAddForeignKeys ==
    /\ main_pc = "add_foreign_keys"
    /\ IF cmd_args.no_fkey
       THEN Method("add_foreign_keys", <<>>, "add_indexes") /\ Running'
       ELSE Method("add_foreign_keys", <<MsgForeignKeys>>, "add_indexes")

\* .add_indexes(env.init_args.jobs)
MainAddIndexes == Method("add_indexes", <<MsgIndexes>>, "vacuum")

\* .vacuum(env.init_args.jobs); the chain of the "init" arm ends here and
\* main returns.
MainVacuum == Method("vacuum", <<MsgVacuum>>, "exit")

\* Executor::checkpoint, "Force a checkpoint": a method that no arm of main
\* calls; were it on the chain it would be this step.
Checkpoint == Method("checkpoint", <<MsgCheckpoint>>, "exit")

\* Files of target_dir: the statistics of a transaction id, written either
\* by this run or by an earlier one that had the same directory name.
StatsFile(t) == <<"pgmtr-stats", t>>
ThisRun == "this run"
EarlierRun == "an earlier run"

\* data_agg::get_stats: Ok when the file of every transaction can be read.
GetStatsOk == \A t \in TxIds : StatsFile(t) \in DOMAIN target_dir

\* Stands for u32::MAX (4294967295, beyond the integers of the model
\* checker), the value of `f64::INFINITY as u32`.
U32Max == -1

\* (n as f64 / secs as f64 * k) as u32: the cast truncates and saturates,
\* n / 0.0 is infinite for n > 0 and NaN (cast to 0) for n = 0.
PerSeconds(n, secs, k) ==
    IF secs = 0
    THEN IF n = 0 THEN 0 ELSE U32Max
    ELSE (n * k) \div secs

\* Duration::from_millis(ms).as_secs()
AsSecs(ms) == ms \div 1000

\* TransactionSummary::new(...) of the counters c over the duration ms.
TransactionSummaryOf(c, ms) ==
    [n_commits |-> c.n_commits,
     n_errors |-> c.n_total - c.n_commits,
     tpm |-> PerSeconds(c.n_commits, AsSecs(ms), 60),
     tps |-> PerSeconds(c.n_commits, AsSecs(ms), 1)]

\* .print_results() once run_benchmark has returned: the statistics files
\* are read, and the summary is built from self.counters and
\* self.total_time_ms; a file or a counter that is missing ends the
\* process with exit(1).
PrintResults ==
    /\ Running
    /\ main_pc = "run_benchmark"
    /\ engine_pc = "done"
    /\ IF GetStatsOk /\ \A t \in TxIds : t \in DOMAIN self_counters
       THEN /\ summary' = [t \in TxIds |->
                  TransactionSummaryOf(self_counters[t], total_time_ms)]
            /\ main_pc' = "exit"
            /\ exit_code' = exit_code
       ELSE /\ exit_code' = 1
            /\ UNCHANGED <<summary, main_pc>>
    /\ UNCHANGED <<args, overhead_ms, engine_pc, client_id, slept_ms,
                   duration_ms, spawn_ms, rampup_time_ms, total_time_ms,
                   self_counters, client_vars, rx, rx_counters, sink_vars,
                   db_vars, cmd_args, stages, jobs, executed, tables,
                   target_dir>>


\* ---------------------------------------------------------------- exec_stmts

\* What a command that does not run the benchmark leaves alone: the state
\* of run_benchmark, of the clients and of the collector, but exit_code.
bench_vars == <<args, overhead_ms, engine_pc, client_id, slept_ms,
                duration_ms, spawn_ms, rampup_time_ms, total_time_ms,
                self_counters, client_vars, rx, rx_counters, sink_vars,
                db_vars>>

\* for stmt in stmts.iter() { rows[(n % n_jobs) as usize].push(...); n += 1 }
\* from the statement at position n on; rows is indexed from 0.
RECURSIVE Rows(_, _, _, _)
Rows(rows, stmts, n, n_jobs) ==
    IF n > Len(stmts)
    THEN rows
    ELSE Rows([rows EXCEPT ![n % n_jobs] = Append(@, stmts[n])],
              stmts, n + 1, n_jobs)

\* The buckets are filled (n starts at 1) and one thread per job is
\* spawned with rows[j - 1]; exec_stmts then waits for the jobs.
ExecStmtsSpawn ==
    /\ Running
    /\ main_pc = "exec_stmts"
    /\ LET rows == Rows([b \in 0..(cmd_args.n_jobs - 1) |-> <<>>],
                        cmd_args.stmts, 1, cmd_args.n_jobs)
       IN jobs' = [j \in 1..cmd_args.n_jobs |->
                     [pc |-> "connect", job_stmts |-> rows[j - 1]]]
    /\ executed' = [j \in 1..cmd_args.n_jobs |-> <<>>]
    /\ main_pc' = "join"
    /\ UNCHANGED <<exit_code, bench_vars, cmd_args, stages, tables,
                   target_dir, summary>>

\* A call on a session, on the statement stmt (0 when the call has none),
\* with its result.  executed[j] lists the calls on the session that the
\* thread of job j opened.
SessionCall(op, stmt, ok) == [op |-> op, stmt |-> stmt, ok |-> ok]

\* Mutant of JobCall: an error is printed and the job goes on.
JobCall_NoExit(j, op, stmt, ok, to, rest) ==
    /\ Running
    /\ executed' = [executed EXCEPT
                      ![j] = Append(@, SessionCall(op, stmt, ok))]
    /\ jobs' = [jobs EXCEPT ![j] = [pc |-> to, job_stmts |-> rest]]
    /\ exit_code' = exit_code
    /\ UNCHANGED <<bench_vars, main_pc, cmd_args, stages, tables, target_dir,
                   summary>>

\* Job j makes a call on its session: Ok takes the job to `to` with the
\* statements `rest` left, Err prints the error and ends the process,
\* terminal::err_msg(...); std::process::exit(1).
JobCall(j, op, stmt, ok, to, rest) ==
    /\ Running
    /\ executed' = [executed EXCEPT
                      ![j] = Append(@, SessionCall(op, stmt, ok))]
    /\ IF ok
       THEN /\ jobs' = [jobs EXCEPT ![j] = [pc |-> to, job_stmts |-> rest]]
            /\ exit_code' = exit_code
       ELSE /\ jobs' = jobs
            /\ exit_code' = 1
    /\ UNCHANGED <<bench_vars, main_pc, cmd_args, stages, tables, target_dir,
                   summary>>

\* let mut client = Executor::connect(dsn)
JobConnect(j) ==
    /\ jobs[j].pc = "connect"
    /\ \E ok \in BOOLEAN :
         JobCall(j, "connect", 0, ok, "loop", jobs[j].job_stmts)

\* client.transaction() for the next statement of the job.
JobTransaction(j) ==
    /\ jobs[j].pc = "loop"
    /\ jobs[j].job_stmts # <<>>
    /\ cmd_args.use_transaction
    /\ \E ok \in BOOLEAN :
         JobCall(j, "transaction", 0, ok, "execute", jobs[j].job_stmts)

\* transaction.batch_execute(stmt)
JobTransactionExecute(j) ==
    /\ jobs[j].pc = "execute"
    /\ \E ok \in BOOLEAN :
         JobCall(j, "batch_execute", Head(jobs[j].job_stmts), ok, "commit",
                 jobs[j].job_stmts)

\* transaction.commit(); the loop goes on with the next statement.
JobCommit(j) ==
    /\ jobs[j].pc = "commit"
    /\ \E ok \in BOOLEAN :
         JobCall(j, "commit", 0, ok, "loop", Tail(jobs[j].job_stmts))

\* "No transaction": client.batch_execute(stmt)
JobExecute(j) ==
    /\ jobs[j].pc = "loop"
    /\ jobs[j].job_stmts # <<>>
    /\ ~cmd_args.use_transaction
    /\ \E ok \in BOOLEAN :
         JobCall(j, "batch_execute", Head(jobs[j].job_stmts), ok, "loop",
                 Tail(jobs[j].job_stmts))

\* job_stmts.iter() has run out: the thread ends.
JobEnd(j) ==
    /\ Running
    /\ jobs[j].pc = "loop"
    /\ jobs[j].job_stmts = <<>>
    /\ jobs' = [jobs EXCEPT ![j].pc = "done"]
    /\ UNCHANGED <<exit_code, bench_vars, main_pc, cmd_args, stages, executed,
                   tables, target_dir, summary>>

\* for job in jobs { job.join() }: every thread has ended.
ExecStmtsJoin ==
    /\ Running
    /\ main_pc = "join"
    /\ \A j \in DOMAIN jobs : jobs[j].pc = "done"
    /\ main_pc' = "returned"
    /\ UNCHANGED <<exit_code, bench_vars, cmd_args, stages, jobs, executed,
                   tables, target_dir, summary>>


\* ----------------------------------------------------------------- load_data

\* Constants of the populate_* functions, at the scale of the model:
\* district_end (10), n_orders_per_district and n_customer_per_district
\* (3_000), the first undelivered order orders_start (2_101), orders_end
\* (3_000), the rows of one warehouse in customer, history and orders
\* (n_items, 30_000 = 10 * 3_000) and in new_order (9_000 = 10 * 900), and
\* the d_next_o_id of a loaded district (3001).
district_start == 1
district_end == NDistrict
n_orders_per_district == NOrders
orders_start == NDelivered + 1
orders_end == NOrders
n_items == district_end * n_orders_per_district
n_items_new_order == district_end * (orders_end - orders_start + 1)
d_next_o_id_loaded == n_orders_per_district + 1

\* (orders_id * (orders_id + district_id + warehouse_id)) % 11 + 5, as
\* populate_orders computes o_ol_cnt.
OrdersOlCnt(orders_id, district_id, warehouse_id) ==
    ((orders_id * (orders_id + district_id + warehouse_id)) % 11) + 5

\* Mutant of OrderLineOlCnt: the lines of an order are drawn in 5..14.
OrderLineOlCnt_Mod10(orders_id, district_id, warehouse_id) ==
    ((orders_id * (orders_id + district_id + warehouse_id)) % 10) + 5

\* The same expression, as populate_order_line computes ol_cnt.
OrderLineOlCnt(orders_id, district_id, warehouse_id) ==
    ((orders_id * (orders_id + district_id + warehouse_id)) % 11) + 5

\* The populate_* functions as the list of what their loops write: one
\* element per iteration, the rows (without their random columns) that
\* the iteration writes to the COPY.

\* populate_item: i_id from 1 to n_items (100_000 in the code).
ItemItems == [i \in 1..MaxItem |-> <<[i_id |-> i]>>]

\* populate_warehouse
WarehouseItems(w) == << <<[w_id |-> w]>> >>

\* populate_district: for district_id in district_start..=district_end.
DistrictItems(w) ==
    [i \in 1..(district_end - district_start + 1) |->
        <<[d_id |-> district_start + i - 1, d_w_id |-> w,
           d_next_o_id |-> d_next_o_id_loaded]>>]

\* populate_stock: item_id from 1, incremented by every row.
StockItems(w) == [i \in 1..MaxItem |-> <<[s_i_id |-> i, s_w_id |-> w]>>]

\* populate_customer, from the k-th of the n_items iterations on.
RECURSIVE CustomerItems(_, _, _, _)
CustomerItems(w, k, customer_id, district_id) ==
    IF k > n_items
    THEN <<>>
    ELSE LET wrap == customer_id + 1 > n_orders_per_district IN
         << <<[c_id |-> customer_id, c_d_id |-> district_id, c_w_id |-> w]>> >>
         \o CustomerItems(w, k + 1,
                          IF wrap THEN 1 ELSE customer_id + 1,
                          IF wrap THEN district_id + 1 ELSE district_id)

\* populate_history, from the k-th iteration on.
RECURSIVE HistoryItems(_, _, _, _)
HistoryItems(w, k, customer_id, district_id) ==
    IF k > n_items
    THEN <<>>
    ELSE LET wrap == customer_id + 1 > n_orders_per_district IN
         << <<[h_c_id |-> customer_id, h_c_d_id |-> district_id,
               h_c_w_id |-> w, h_d_id |-> district_id, h_w_id |-> w]>> >>
         \o HistoryItems(w, k + 1,
                         IF wrap THEN 1 ELSE customer_id + 1,
                         IF wrap THEN district_id + 1 ELSE district_id)

\* populate_orders, from the k-th iteration on: o_carrier_id is written
\* for orders_id < 2_101 and left empty (NULL) otherwise.
RECURSIVE OrdersItems(_, _, _, _, _)
OrdersItems(w, k, orders_id, customer_id, district_id) ==
    IF k > n_items
    THEN <<>>
    ELSE LET wrap == orders_id + 1 > n_orders_per_district IN
         << <<[o_id |-> orders_id, o_d_id |-> district_id, o_w_id |-> w,
               o_c_id |-> customer_id,
               o_carrier_id |-> IF orders_id < orders_start
                                THEN "set" ELSE "",
               o_ol_cnt |-> OrdersOlCnt(orders_id, district_id, w)]>> >>
         \o OrdersItems(w, k + 1,
                        IF wrap THEN 1 ELSE orders_id + 1,
                        IF wrap THEN 1 ELSE customer_id + 1,
                        IF wrap THEN district_id + 1 ELSE district_id)

\* Mutant of NewOrderItems: the district changes one order early.
RECURSIVE NewOrderItems_WrapsEarly(_, _, _, _)
NewOrderItems_WrapsEarly(w, k, orders_id, district_id) ==
    IF k > n_items_new_order
    THEN <<>>
    ELSE LET wrap == orders_id + 1 >= orders_end IN
         << <<[no_o_id |-> orders_id, no_d_id |-> district_id,
               no_w_id |-> w]>> >>
         \o NewOrderItems_WrapsEarly(w, k + 1,
                          IF wrap THEN orders_start ELSE orders_id + 1,
                          IF wrap THEN district_id + 1 ELSE district_id)

\* populate_new_order, from the k-th iteration on.
RECURSIVE NewOrderItems(_, _, _, _)
NewOrderItems(w, k, orders_id, district_id) ==
    IF k > n_items_new_order
    THEN <<>>
    ELSE LET wrap == orders_id + 1 > orders_end IN
         << <<[no_o_id |-> orders_id, no_d_id |-> district_id,
               no_w_id |-> w]>> >>
         \o NewOrderItems(w, k + 1,
                          IF wrap THEN orders_start ELSE orders_id + 1,
                          IF wrap THEN district_id + 1 ELSE district_id)

\* populate_order_line, from the k-th order on: for i in 1..=ol_cnt one
\* line; the lines of the orders from 2101 on have no delivery date.
RECURSIVE OrderLineItems(_, _, _, _)
OrderLineItems(w, k, orders_id, district_id) ==
    IF k > n_items
    THEN <<>>
    ELSE LET wrap == orders_id + 1 > n_orders_per_district
             ol_cnt == OrderLineOlCnt(orders_id, district_id, w)
         IN << [i \in 1..ol_cnt |->
                  [ol_o_id |-> orders_id, ol_d_id |-> district_id,
                   ol_w_id |-> w, ol_number |-> i,
                   ol_delivery_d |-> IF orders_id >= orders_start
                                     THEN "" ELSE "set"]] >>
            \o OrderLineItems(w, k + 1,
                              IF wrap THEN 1 ELSE orders_id + 1,
                              IF wrap THEN district_id + 1 ELSE district_id)

\* The calls of TPCC::load_data for one warehouse, in order, by the table
\* they fill.
PopulateSteps ==
    <<"warehouse", "district", "stock", "customer", "history", "orders",
      "new_order", "order_line">>

\* What the populate function of a table writes for the warehouse w.
PopulateItems(table, w) ==
    CASE table = "warehouse" -> WarehouseItems(w)
      [] table = "district" -> DistrictItems(w)
      [] table = "stock" -> StockItems(w)
      [] table = "customer" -> CustomerItems(w, 1, 1, 1)
      [] table = "history" -> HistoryItems(w, 1, 1, 1)
      [] table = "orders" -> OrdersItems(w, 1, 1, 1, 1)
      [] table = "new_order" -> NewOrderItems(w, 1, orders_start, 1)
      [] table = "order_line" -> OrderLineItems(w, 1, 1, 1)

\* n_batch, the number of COPY operations of a populate function: one
\* for warehouse and district, ceil(n_items / batch_size) for the others.
NBatch(table, items) ==
    IF table \in {"warehouse", "district"}
    THEN 1
    ELSE (Len(items) + BatchSize - 1) \div BatchSize

\* The rows of the first n elements of items.
RECURSIVE RowsOf(_, _)
RowsOf(items, n) ==
    IF n = 0 THEN <<>> ELSE RowsOf(items, n - 1) \o items[n]

\* The rows that b complete COPY operations have written.
Copied(table, items, b) ==
    IF b >= NBatch(table, items)
    THEN RowsOf(items, Len(items))
    ELSE RowsOf(items, b * BatchSize)

\* A table (it has no key while it is loaded: row -> number of copies)
\* after the COPY of rows.
TableAfter(t, rows) ==
    [x \in DOMAIN t \cup {rows[i] : i \in 1..Len(rows)} |->
        (IF x \in DOMAIN t THEN t[x] ELSE 0)
        + Cardinality({i \in 1..Len(rows) : rows[i] = x})]

\* A populate function called for the items of a table: Ok(()) when every
\* COPY went through, Err as soon as one fails; the operations before the
\* failing one have written their rows (each COPY is a statement of its
\* own, outside any transaction).
Populate(table, items, ok, b) ==
    tables' = [tables EXCEPT
                 ![table] = TableAfter(@, Copied(table, items,
                                IF ok THEN NBatch(table, items) ELSE b))]

\* Executor::load_data up to the start of the jobs: the connection,
\* pre_load_data (populate_item), then the ids of the warehouses are dealt
\* to the jobs, ids[(n % n_jobs)].push(n) for n in 1..=scalefactor, and one
\* thread per job is spawned with ids[j - 1].
LoadDataPreLoad ==
    /\ Running
    /\ main_pc = "load_data"
    /\ stages' = Append(stages, MsgPreLoad)
    /\ \E ok \in BOOLEAN, b \in 0..(NBatch("item", ItemItems) - 1) :
         /\ Populate("item", ItemItems, ok, b)
         /\ IF ok
            THEN main_pc' = "spawn" /\ exit_code' = exit_code
            ELSE main_pc' = main_pc /\ exit_code' = 1
    /\ UNCHANGED <<bench_vars, cmd_args, jobs, executed, target_dir, summary>>

\* The ids matrix of load_data: "one line per jobs and the ids balanced
\* across the lines".
Ids(scalefactor, n_jobs) ==
    Rows([b \in 0..(n_jobs - 1) |-> <<>>], [n \in 1..scalefactor |-> n],
         1, n_jobs)

LoadDataSpawn ==
    /\ Running
    /\ main_pc = "spawn"
    /\ stages' = Append(stages, MsgLoad)
    /\ LET ids == Ids(cmd_args.scalefactor, cmd_args.jobs)
       IN jobs' = [j \in 1..cmd_args.jobs |->
                     [pc |-> "connect", job_ids |-> ids[j - 1], step |-> 1]]
    /\ executed' = [j \in 1..cmd_args.jobs |-> <<>>]
    /\ main_pc' = "join"
    /\ UNCHANGED <<exit_code, bench_vars, cmd_args, tables, target_dir,
                   summary>>

\* let mut job_client = Executor::connect(dsn)
LoadJobConnect(j) ==
    /\ Running
    /\ jobs[j].pc = "connect"
    /\ \E ok \in BOOLEAN :
         IF ok
         THEN jobs' = [jobs EXCEPT ![j].pc = "load"] /\ exit_code' = exit_code
         ELSE jobs' = jobs /\ exit_code' = 1
    /\ UNCHANGED <<bench_vars, main_pc, cmd_args, stages, executed, tables,
                   target_dir, summary>>

\* TPCC::load_data of job j: the next populate call for the warehouse at
\* the head of its ids; `?` returns the Err of the call, and the job ends
\* the process with exit(1).  executed[j] lists the warehouses the job
\* has started to load.
LoadJobPopulate(j) ==
    /\ Running
    /\ jobs[j].pc = "load"
    /\ jobs[j].job_ids # <<>>
    /\ LET w == Head(jobs[j].job_ids)
           table == PopulateSteps[jobs[j].step]
           items == PopulateItems(table, w)
       IN /\ executed' = IF jobs[j].step = 1
                         THEN [executed EXCEPT ![j] = Append(@, w)]
                         ELSE executed
          /\ \E ok \in BOOLEAN, b \in 0..(NBatch(table, items) - 1) :
               /\ Populate(table, items, ok, b)
               /\ IF ok
                  THEN /\ exit_code' = exit_code
                       /\ jobs' = IF jobs[j].step = Len(PopulateSteps)
                                  THEN [jobs EXCEPT ![j].step = 1,
                                          ![j].job_ids = Tail(@)]
                                  ELSE [jobs EXCEPT ![j].step = @ + 1]
                  ELSE jobs' = jobs /\ exit_code' = 1
    /\ UNCHANGED <<bench_vars, main_pc, cmd_args, stages, target_dir,
                   summary>>

\* for warehouse_id in warehouse_ids has run out: Ok, the thread ends.
LoadJobEnd(j) ==
    /\ Running
    /\ jobs[j].pc = "load"
    /\ jobs[j].job_ids = <<>>
    /\ jobs' = [jobs EXCEPT ![j].pc = "done"]
    /\ UNCHANGED <<exit_code, bench_vars, main_pc, cmd_args, stages, executed,
                   tables, target_dir, summary>>

\* for job in jobs { job.join() }; load_data returns.
LoadDataJoin ==
    /\ Running
    /\ main_pc = "join"
    /\ \A j \in DOMAIN jobs : jobs[j].pc = "done"
    /\ main_pc' = "returned"
    /\ UNCHANGED <<exit_code, bench_vars, cmd_args, stages, jobs, executed,
                   tables, target_dir, summary>>


\* ------------------------------------------------------------ aggregate_data

\* Files of target_dir: the transaction log the collector wrote, and the
\* CSV files of the aggregation.
LOG_FILE == <<"transaction.log", 0>>
TpmFile(t) == <<"pgmtr-tpm", t>>
ResponseTimeFile(t) == <<"pgmtr-response-time", t>>
TpmAllFile == <<"pgmtr-tpm-all", 0>>

\* A line of the log, "timestamp n_client tx_id duration_ms", by its
\* columns column_1 .. column_4 (the timestamp is in seconds).
LogRecord(ts, n, t, d) ==
    [column_1 |-> ts, column_2 |-> n, column_3 |-> t, column_4 |-> d]

\* A line that cannot be parsed (it stands as a record without a
\* timestamp), and the logs that the reader can parse.
MalformedLine == LogRecord(-1, -1, -1, -1)
Parses(df) == \A i \in 1..Len(df) : df[i] # MalformedLine

\* The positions of the lines of the log df that .filter(col("column_3")
\* .eq(transaction.id)) keeps.
Filtered(df, id) == {i \in 1..Len(df) : df[i].column_3 = id}

\* col("column_1").min() over the lines at the positions ps.
MinTimestamp(df, ps) ==
    CHOOSE m \in {df[i].column_1 : i \in ps} :
        \A i \in ps : m <= df[i].column_1

\* .sort("time_s"): the rows of a set of rows with distinct time_s, by
\* ascending time_s.
RECURSIVE SortByTimeS(_)
SortByTimeS(rows) ==
    IF rows = {}
    THEN <<>>
    ELSE LET first == CHOOSE r \in rows : \A o \in rows : r.time_s <= o.time_s
         IN <<first>> \o SortByTimeS(rows \ {first})

\* Mutant of TpmDf: the filter on the transaction id is left out.
TpmDf_Unfiltered(df, id, ps) ==
    SortByTimeS(
      { [time_s |-> df[i].column_1 - MinTimestamp(df, 1..Len(df)),
         tpm |-> Cardinality({k \in 1..Len(df) :
                                 df[k].column_1 = df[i].column_1}) * 60] :
          i \in 1..Len(df) })

\* .groupby([column_1, column_3]).agg([col("column_4").count() * lit(60)])
\* .select([column_1 - column_1.min() as time_s, column_4 as tpm])
\* .sort("time_s") over the lines at the positions ps, all of the id.
TpmDf(df, id, ps) ==
    SortByTimeS(
      { [time_s |-> df[i].column_1 - MinTimestamp(df, ps),
         tpm |-> Cardinality({k \in ps :
                                 /\ df[k].column_1 = df[i].column_1
                                 /\ df[k].column_3 = df[i].column_3}) * 60] :
          i \in ps })

\* The same with .groupby([column_1]) over every line: tpm_all_df.
TpmAllDf(df) ==
    SortByTimeS(
      { [time_s |-> df[i].column_1 - MinTimestamp(df, 1..Len(df)),
         tpm |-> Cardinality({k \in 1..Len(df) :
                                 df[k].column_1 = df[i].column_1}) * 60] :
          i \in 1..Len(df) })

\* The transactions of get_transactions_rw, in the order of the list.
TransactionsRw == <<1, 2>>

\* The transaction of the current iteration of the for loop: executed
\* lists the transactions whose iteration is through.
Transaction == TransactionsRw[Len(executed) + 1]

\* target_dir after File::create and CsvWriter::finish of a file.
Saved(dir, file, content) ==
    [f \in DOMAIN dir \cup {file} |-> IF f = file THEN content ELSE dir[f]]

\* A step of aggregate_tpcc_data that ends with `?`: on Ok the files are
\* written and the function goes on at `to`; on Err the function returns
\* the error and aggregate_data prints it and ends the process,
\* terminal::err_msg(...); std::process::exit(1).
AggStep(at, ok, dir, to, done) ==
    /\ Running
    /\ main_pc = at
    /\ IF ok
       THEN /\ target_dir' = dir
            /\ main_pc' = to
            /\ executed' = done
            /\ exit_code' = exit_code
       ELSE /\ exit_code' = 1
            /\ UNCHANGED <<target_dir, main_pc, executed>>
    /\ UNCHANGED <<bench_vars, cmd_args, stages, jobs, tables, summary>>

\* Executor::aggregate_data: the start message, and the call.
AggregateData ==
    /\ Running
    /\ main_pc = "aggregate_data"
    /\ stages' = Append(stages, MsgAggregate)
    /\ main_pc' = IF TransactionsRw = <<>> THEN "tpm_all" ELSE "tpm"
    /\ UNCHANGED <<exit_code, bench_vars, cmd_args, jobs, executed, tables,
                   target_dir, summary>>

\* tpm_df is collected (the log is parsed here, the reader is lazy) and
\* saved as pgmtr-tpm-{name}.csv.
AggTpm ==
    /\ main_pc = "tpm"
    /\ LET df == target_dir[LOG_FILE] IN
       \E ok \in IF Parses(df) THEN BOOLEAN ELSE {FALSE} :
          AggStep("tpm", ok,
                  IF ok
                  THEN Saved(target_dir, TpmFile(Transaction),
                             TpmDf(df, Transaction,
                                   Filtered(df, Transaction)))
                  ELSE target_dir,
                  "response_time", executed)

\* response_time_df and stats are collected.
AggResponseTime ==
    \E ok \in BOOLEAN :
        AggStep("response_time", ok, target_dir, "files", executed)

\* pgmtr-response-time-{name}.csv and pgmtr-stats-{name}.csv are saved;
\* the loop goes on with the next transaction.
AggFiles ==
    /\ main_pc = "files"
    /\ \E ok \in BOOLEAN :
          AggStep("files", ok,
                  Saved(Saved(target_dir, ResponseTimeFile(Transaction),
                              ThisRun),
                        StatsFile(Transaction), ThisRun),
                  IF Len(executed) + 1 = Len(TransactionsRw)
                  THEN "tpm_all" ELSE "tpm",
                  Append(executed, Transaction))

\* tpm_all_df is collected and saved as pgmtr-tpm-all.csv; Ok(()).
AggTpmAll ==
    /\ main_pc = "tpm_all"
    /\ LET df == target_dir[LOG_FILE] IN
       \E ok \in IF Parses(df) THEN BOOLEAN ELSE {FALSE} :
          AggStep("tpm_all", ok,
                  IF ok
                  THEN Saved(target_dir, TpmAllFile, TpmAllDf(df))
                  ELSE target_dir,
                  "returned", executed)


\* ---------------------------------------------------------- specifications

\* The state after Executor::new and the start of the data collector, for
\* the RunArgs a, of a run whose ramp-up has the overhead o.
InitWith(a, o) ==
    /\ exit_code = 0
    /\ args = a
    /\ overhead_ms = o
    /\ engine_pc = "spawn"
    /\ client_id = 0
    /\ slept_ms = 0
    /\ duration_ms = [c \in 1..a.client |-> 0]
    /\ spawn_ms = [c \in 1..a.client |-> 0]
    /\ rampup_time_ms = 0
    /\ total_time_ms = 0
    /\ self_counters = <<>>
    /\ client_pc = [c \in 1..a.client |-> "unspawned"]
    /\ n_tx = [c \in 1..a.client |-> 0]
    /\ deadline_reached = [c \in 1..a.client |-> FALSE]
    /\ rx = <<>>
    /\ rx_counters = <<>>
    /\ sink_pc = "recv"
    /\ counters = <<>>
    /\ client_ids = {}
    /\ n_client = 0
    /\ ramping_up = TRUE
    /\ log_file = [buf |-> <<>>, file |-> <<>>]
    /\ error_file = [buf |-> <<>>, file |-> <<>>]
    /\ consumed = <<>>

\* Neither main nor one of the functions of the commands is followed.
NoCommand ==
    /\ main_pc = "none"
    /\ cmd_args = <<>>
    /\ stages = <<>>
    /\ jobs = <<>>
    /\ executed = <<>>
    /\ tables = <<>>
    /\ target_dir = <<>>
    /\ summary = <<>>

\* The specifications of the engine have no session and no database row.
NoSession ==
    /\ tpcc = [start_id |-> 1, end_id |-> 1]
    /\ db = <<>>
    /\ session = <<>>

Init == NoSession /\ NoCommand /\ \E a \in RunArgsSet : InitWith(a, 0)

Next ==
    \/ EngineSpawn /\ UNCHANGED idle_vars
    \/ EngineEndOfRampup /\ UNCHANGED idle_vars
    \/ EngineAwait /\ UNCHANGED idle_vars
    \/ EngineTerminate /\ UNCHANGED idle_vars
    \/ EngineJoin /\ UNCHANGED idle_vars
    \/ EngineRecvCounters /\ UNCHANGED idle_vars
    \/ \E c \in 1..args.client : ClientConnect(c) /\ UNCHANGED idle_vars
    \/ \E c \in 1..args.client : ClientConnectFailed(c) /\ UNCHANGED idle_vars
    \/ \E c \in 1..args.client : ClientCommitted(c) /\ UNCHANGED idle_vars
    \/ \E c \in 1..args.client : ClientError(c) /\ UNCHANGED idle_vars
    \/ SinkCommitted /\ UNCHANGED idle_vars
    \/ SinkError /\ UNCHANGED idle_vars
    \/ SinkEndOfRampup /\ UNCHANGED idle_vars
    \/ SinkTerminate /\ UNCHANGED idle_vars
    \/ SinkSendCounters /\ UNCHANGED idle_vars
    \/ SinkDrop /\ UNCHANGED idle_vars

Spec == Init /\ [][Next]_vars

\* The ramp-up schedule alone, over wider ranges of the arguments: the
\* spawn loop and the end-of-rampup message of run_benchmark.
InitRamp ==
    /\ NoSession /\ NoCommand
    /\ \E a \in RampArgsSet, o \in OverheadMs : InitWith(a, o)

NextRamp ==
    \/ EngineSpawn /\ UNCHANGED idle_vars
    \/ EngineEndOfRampup /\ UNCHANGED idle_vars

SpecRamp == InitRamp /\ [][NextRamp]_vars

\* TPCC {start_id, end_id} of a run on one warehouse and of a run on two.
TpccSet == {[start_id |-> 1, end_id |-> e] : e \in WarehouseIds}

\* A run of n clients on one of the databases at the moment the ramp-up is
\* over: every client is connected and in its loop, about to call
\* execute_rw_transaction, the engine awaits the clients, the collector has
\* consumed the end-of-ramp-up message.
InitSessions(n) ==
    /\ exit_code = 0
    /\ args = [client |-> n, time |-> 1, rampup |-> 0]
    /\ overhead_ms = 0
    /\ engine_pc = "await"
    /\ client_id = n
    /\ slept_ms = 0
    /\ duration_ms = [c \in 1..n |-> 1000]
    /\ spawn_ms = [c \in 1..n |-> 0]
    /\ rampup_time_ms = 0
    /\ total_time_ms = 0
    /\ self_counters = <<>>
    /\ client_pc = [c \in 1..n |-> "loop"]
    /\ n_tx = [c \in 1..n |-> 0]
    /\ deadline_reached = [c \in 1..n |-> FALSE]
    /\ rx = <<>>
    /\ rx_counters = <<>>
    /\ sink_pc = "recv"
    /\ counters = <<>>
    /\ client_ids = {}
    /\ n_client = 0
    /\ ramping_up = FALSE
    /\ log_file = [buf |-> <<>>, file |-> <<>>]
    /\ error_file = [buf |-> <<>>, file |-> <<>>]
    /\ consumed = <<[msg |-> TXMessage_end_of_rampup, ramping_up |-> TRUE]>>
    /\ NoCommand
    /\ \E t \in TpccSet, d \in Databases :
         /\ tpcc = t
         /\ db = d
         /\ session = [s \in 1..n |-> IdleSession]

\* Two sessions that execute Delivery concurrently, no statement failing.
InitDelivery == InitSessions(2)

NextDelivery ==
    \/ \E s \in DOMAIN session : DeliveryDraw(s)
    \/ \E s \in DOMAIN session : TxBegin(s)
    \/ \E s \in DOMAIN session : DeliverySelect(s)
    \/ \E s \in DOMAIN session : DeliveryDelete(s)
    \/ \E s \in DOMAIN session : DeliveryOrders(s)
    \/ \E s \in DOMAIN session : DeliveryLines(s)
    \/ \E s \in DOMAIN session : DeliverySum(s)
    \/ \E s \in DOMAIN session : DeliveryCustomer(s)
    \/ \E s \in DOMAIN session : TxCommit(s)

SpecDelivery == InitDelivery /\ [][NextDelivery]_vars

\* One session that executes the five routines, with the failures of the
\* driver.
InitTx == InitSessions(1)

NextTx ==
    \/ \E s \in DOMAIN session : DeliveryDraw(s)
    \/ \E s \in DOMAIN session : NewOrderDraw(s)
    \/ \E s \in DOMAIN session : PaymentDraw(s)
    \/ \E s \in DOMAIN session : OrderStatusDraw(s)
    \/ \E s \in DOMAIN session : StockLevelDraw(s)
    \/ \E s \in DOMAIN session : NewOrderLine(s)
    \/ \E s \in DOMAIN session : TxBegin(s)
    \/ \E s \in DOMAIN session : TxBeginFailed(s)
    \/ \E s \in DOMAIN session : StatementFailed(s)
    \/ \E s \in DOMAIN session : DeliverySelect(s)
    \/ \E s \in DOMAIN session : DeliveryDelete(s)
    \/ \E s \in DOMAIN session : DeliveryOrders(s)
    \/ \E s \in DOMAIN session : DeliveryLines(s)
    \/ \E s \in DOMAIN session : DeliverySum(s)
    \/ \E s \in DOMAIN session : DeliveryCustomer(s)
    \/ \E s \in DOMAIN session : NewOrderDistrict(s)
    \/ \E s \in DOMAIN session : NewOrderInsert(s)
    \/ \E s \in DOMAIN session : NewOrderItem(s)
    \/ \E s \in DOMAIN session : NewOrderStock(s)
    \/ \E s \in DOMAIN session : PaymentWarehouse(s)
    \/ \E s \in DOMAIN session : PaymentDistrict(s)
    \/ \E s \in DOMAIN session : PaymentCustomer(s)
    \/ \E s \in DOMAIN session : OrderStatusRead(s)
    \/ \E s \in DOMAIN session : StockLevelRead(s)
    \/ \E s \in DOMAIN session : TxCommit(s)
    \/ \E s \in DOMAIN session : TxCommitFailed(s)
    \/ \E s \in DOMAIN session : ClientOutcome(s)
    \/ SinkCommitted /\ UNCHANGED idle_vars
    \/ SinkError /\ UNCHANGED idle_vars

SpecTx == InitTx /\ [][NextTx]_vars

\* InitArgs {scalefactor, jobs} and the --no-fkey toggle of `init`.
InitArgsSet ==
    { [action |-> "init", scalefactor |-> s, jobs |-> j, no_fkey |-> f] :
        s \in 1..MaxScale, j \in 1..MaxJobs, f \in BOOLEAN }

\* RunArgs of the `run` command that main follows: one client, with and
\* without a ramp-up.
MainRunArgsSet ==
    { [client |-> 1, time |-> t, rampup |-> r] : t \in {1}, r \in {0, 1} }

\* What create_dir_all can find in target_dir: nothing, or the statistics
\* of an earlier run.
TargetDirs == { <<>>, [f \in {StatsFile(t) : t \in TxIds} |-> EarlierRun] }

\* main once the arguments are parsed and Executor::new has returned: at
\* the first method of the "init" arm, or in run_benchmark of the "run" arm.
InitMain ==
    /\ NoSession
    /\ stages = <<>>
    /\ jobs = <<>>
    /\ executed = <<>>
    /\ tables = <<>>
    /\ summary = <<>>
    /\ \/ /\ cmd_args \in InitArgsSet
          /\ main_pc = "init_db_schema"
          /\ target_dir = <<>>
          /\ InitWith([client |-> 1, time |-> 0, rampup |-> 0], 0)
       \/ /\ cmd_args = [action |-> "run"]
          /\ main_pc = "run_benchmark"
          /\ target_dir \in TargetDirs
          /\ \E a \in MainRunArgsSet : InitWith(a, 0)

NextMain ==
    \/ MainInitDbSchema
    \/ MainLoadData
    \/ MainAddPrimaryKeys
    \/ MainAddForeignKeys
    \/ MainAddIndexes
    \/ MainVacuum
    \/ main_pc = "run_benchmark" /\ Next
    \/ PrintResults

SpecMain == InitMain /\ [][NextMain]_vars


\* The arguments of exec_stmts: the jobs, a list of up to MaxStmts
\* statements (the statement at position i is i), and use_transaction.
ExecStmtsArgs ==
    { [n_jobs |-> j, stmts |-> [i \in 1..n |-> i], use_transaction |-> t] :
        j \in 1..MaxJobs, n \in 0..MaxStmts, t \in BOOLEAN }

\* A call of exec_stmts.
InitStmts ==
    /\ NoSession
    /\ InitWith([client |-> 1, time |-> 0, rampup |-> 0], 0)
    /\ main_pc = "exec_stmts"
    /\ cmd_args \in ExecStmtsArgs
    /\ stages = <<>>
    /\ jobs = <<>>
    /\ executed = <<>>
    /\ tables = <<>>
    /\ target_dir = <<>>
    /\ summary = <<>>

NextStmts ==
    \/ ExecStmtsSpawn
    \/ \E j \in DOMAIN jobs : JobConnect(j)
    \/ \E j \in DOMAIN jobs : JobTransaction(j)
    \/ \E j \in DOMAIN jobs : JobTransactionExecute(j)
    \/ \E j \in DOMAIN jobs : JobCommit(j)
    \/ \E j \in DOMAIN jobs : JobExecute(j)
    \/ \E j \in DOMAIN jobs : JobEnd(j)
    \/ ExecStmtsJoin

SpecStmts == InitStmts /\ [][NextStmts]_vars


\* The tables after init_db_schema: created, empty.
EmptyTables ==
    [t \in {"item", "warehouse", "district", "stock", "customer", "history",
            "orders", "new_order", "order_line"} |-> <<>>]

\* A call of load_data(scalefactor, n_jobs) on the empty schema.
InitLoad ==
    /\ NoSession
    /\ InitWith([client |-> 1, time |-> 0, rampup |-> 0], 0)
    /\ main_pc = "load_data"
    /\ cmd_args \in { [scalefactor |-> s, jobs |-> j] :
                        s \in 1..MaxScale, j \in 1..MaxJobs }
    /\ stages = <<>>
    /\ jobs = <<>>
    /\ executed = <<>>
    /\ tables = EmptyTables
    /\ target_dir = <<>>
    /\ summary = <<>>

NextLoad ==
    \/ LoadDataPreLoad
    \/ LoadDataSpawn
    \/ \E j \in DOMAIN jobs : LoadJobConnect(j)
    \/ \E j \in DOMAIN jobs : LoadJobPopulate(j)
    \/ \E j \in DOMAIN jobs : LoadJobEnd(j)
    \/ LoadDataJoin

SpecLoad == InitLoad /\ [][NextLoad]_vars


\* The logs the aggregation is run on: one to MaxLog lines, of the
\* transactions of the list, in up to MaxTs different seconds, or lines
\* that cannot be parsed.
LogLines ==
    { LogRecord(ts, 1, t, 1) : ts \in 1..MaxTs, t \in 1..Len(TransactionsRw) }
    \cup {MalformedLine}
Logs == UNION { [1..n -> LogLines] : n \in 1..MaxLog }

\* A call of aggregate_data on the target directory of a run that has
\* ended.
InitAgg ==
    /\ NoSession
    /\ InitWith([client |-> 1, time |-> 0, rampup |-> 0], 0)
    /\ main_pc = "aggregate_data"
    /\ cmd_args = <<>>
    /\ stages = <<>>
    /\ jobs = <<>>
    /\ executed = <<>>
    /\ tables = <<>>
    /\ \E log \in Logs : target_dir = [f \in {LOG_FILE} |-> log]
    /\ summary = <<>>

NextAgg ==
    \/ AggregateData
    \/ AggTpm
    \/ AggResponseTime
    \/ AggFiles
    \/ AggTpmAll

SpecAgg == InitAgg /\ [][NextAgg]_vars


\* Two sessions that execute New-Order concurrently on the loaded database of a
\* run on one warehouse, no statement failing.
InitNewOrder ==
    /\ InitSessions(2)
    /\ tpcc.end_id = tpcc.start_id
    /\ db = LoadedDb

NextNewOrder ==
    \/ \E s \in DOMAIN session : NewOrderDraw(s)
    \/ \E s \in DOMAIN session : NewOrderLine(s)
    \/ \E s \in DOMAIN session : TxBegin(s)
    \/ \E s \in DOMAIN session : NewOrderDistrict(s)
    \/ \E s \in DOMAIN session : NewOrderInsert(s)
    \/ \E s \in DOMAIN session : NewOrderItem(s)
    \/ \E s \in DOMAIN session : NewOrderStock(s)
    \/ \E s \in DOMAIN session : TxCommit(s)

SpecNewOrder == InitNewOrder /\ [][NextNewOrder]_vars


\* The s_quantity populate_stock draws for a row, gen_range(10..=100), and
\* the ol_quantity New-Order draws for a line, gen_range(1..=10).
LoadedQuantities == 10..100
OrderQuantities == 1..10

\* The stock SELECT and UPDATE of a New-Order line of the item of row k,
\* supplied by its own warehouse, with no statement of another session in
\* between.
StockOrder(k) ==
    /\ db[k].s_order_cnt < MaxOrders
    /\ \E ol_quantity \in OrderQuantities :
         db' = [db EXCEPT
                  ![k] = StockUpdate(@, StockQuantity(@.s_quantity, ol_quantity),
                                     [ol_quantity |-> ol_quantity,
                                      ol_supply_w_id |-> k[2]],
                                     k[2])]
    /\ UNCHANGED <<run_vars, tpcc, session, cmd_vars>>

\* One stock row as populate_stock loaded it; the New-Orders are applied to
\* it one after the other.
InitStock ==
    /\ InitWith([client |-> 1, time |-> 0, rampup |-> 0], 0)
    /\ NoCommand
    /\ tpcc = [start_id |-> 1, end_id |-> 1]
    /\ session = <<>>
    /\ \E s_quantity \in LoadedQuantities :
         db = [k \in {<<"stock", 1, 1>>} |->
                 [s_quantity |-> s_quantity, s_ytd |-> 0, s_order_cnt |-> 0,
                  s_remote_cnt |-> 0]]

NextStock == \E k \in DOMAIN db : StockOrder(k)

SpecStock == InitStock /\ [][NextStock]_vars


\* Two sessions that execute Payment concurrently on the loaded database,
\* with the failures of the driver.
InitPayment ==
    /\ InitSessions(2)
    /\ db = LoadedDb

NextPayment ==
    \/ \E s \in DOMAIN session : PaymentDraw(s)
    \/ \E s \in DOMAIN session : TxBegin(s)
    \/ \E s \in DOMAIN session : TxBeginFailed(s)
    \/ \E s \in DOMAIN session : StatementFailed(s)
    \/ \E s \in DOMAIN session : PaymentWarehouse(s)
    \/ \E s \in DOMAIN session : PaymentDistrict(s)
    \/ \E s \in DOMAIN session : PaymentCustomer(s)
    \/ \E s \in DOMAIN session : TxCommit(s)
    \/ \E s \in DOMAIN session : TxCommitFailed(s)

SpecPayment == InitPayment /\ [][NextPayment]_vars


\* Two sessions on the loaded database of a run on one warehouse: the first
\* executes New-Order, the second Delivery, in any interleaving.
InitOrders ==
    /\ InitSessions(2)
    /\ tpcc.end_id = tpcc.start_id
    /\ db = LoadedDb

NextOrders ==
    \/ NewOrderDraw(1)
    \/ NewOrderLine(1)
    \/ NewOrderDistrict(1)
    \/ NewOrderInsert(1)
    \/ NewOrderItem(1)
    \/ NewOrderStock(1)
    \/ DeliveryDraw(2)
    \/ DeliverySelect(2)
    \/ DeliveryDelete(2)
    \/ DeliveryOrders(2)
    \/ DeliveryLines(2)
    \/ DeliverySum(2)
    \/ DeliveryCustomer(2)
    \/ \E s \in DOMAIN session : TxBegin(s)
    \/ \E s \in DOMAIN session : TxCommit(s)

SpecOrders == InitOrders /\ [][NextOrders]_vars


\* The steps of the engine, of the task of client c and of the collector
\* thread.
EngineStep ==
    /\ \/ EngineSpawn
       \/ EngineEndOfRampup
       \/ EngineAwait
       \/ EngineTerminate
       \/ EngineJoin
       \/ EngineRecvCounters
    /\ UNCHANGED idle_vars

\* The transaction the clients of the scheduled run draw: the first one (its
\* id travels in the message and plays no part in what the threads do next).
LiveTxIds == {CHOOSE t \in TxIds : \A u \in TxIds : t <= u}

\* execute_rw_transaction returned Ok(duration) in the scheduled run.
LiveCommitted(c) ==
    \E tx_id \in LiveTxIds, d \in Durations(c) :
      \E expired \in DeadlineCheck(c, [n_tx EXCEPT ![c] = @ + 1]) :
        ClientLoop(c, TXMessage_committed(tx_id, c, d), expired)

\* execute_rw_transaction returned Err(error) in the scheduled run.
LiveError(c) ==
    \E tx_id \in LiveTxIds :
      \E error \in Errors(tx_id),
         expired \in DeadlineCheck(c, [n_tx EXCEPT ![c] = @ + 1]) :
        ClientLoop(c, TXMessage_error(tx_id, c, error), expired)

ClientStep(c) ==
    /\ c \in 1..args.client
    /\ \/ ClientConnect(c)
       \/ ClientConnectFailed(c)
       \/ LiveCommitted(c)
       \/ LiveError(c)
    /\ UNCHANGED idle_vars

SinkStep ==
    /\ \/ SinkCommitted
       \/ SinkError
       \/ SinkEndOfRampup
       \/ SinkTerminate
       \/ SinkSendCounters
       \/ SinkDrop
    /\ UNCHANGED idle_vars

\* The run with its scheduling: the main thread, every spawned task and the
\* collector thread go on when they can, and every call of
\* execute_rw_transaction returns (an iteration of a client's loop that has
\* started comes to its end).
NextLive ==
    \/ EngineSpawn /\ UNCHANGED idle_vars
    \/ EngineEndOfRampup /\ UNCHANGED idle_vars
    \/ EngineAwait /\ UNCHANGED idle_vars
    \/ EngineTerminate /\ UNCHANGED idle_vars
    \/ EngineJoin /\ UNCHANGED idle_vars
    \/ EngineRecvCounters /\ UNCHANGED idle_vars
    \/ \E c \in 1..args.client : ClientConnect(c) /\ UNCHANGED idle_vars
    \/ \E c \in 1..args.client : ClientConnectFailed(c) /\ UNCHANGED idle_vars
    \/ \E c \in 1..args.client : LiveCommitted(c) /\ UNCHANGED idle_vars
    \/ \E c \in 1..args.client : LiveError(c) /\ UNCHANGED idle_vars
    \/ SinkCommitted /\ UNCHANGED idle_vars
    \/ SinkError /\ UNCHANGED idle_vars
    \/ SinkEndOfRampup /\ UNCHANGED idle_vars
    \/ SinkTerminate /\ UNCHANGED idle_vars
    \/ SinkSendCounters /\ UNCHANGED idle_vars
    \/ SinkDrop /\ UNCHANGED idle_vars

SpecLive ==
    /\ Init
    /\ [][NextLive]_vars
    /\ WF_vars(EngineStep)
    /\ WF_vars(SinkStep)
    /\ \A c \in {a.client : a \in RunArgsSet} : WF_vars(ClientStep(c))


\* ------------------------------------------------- history and its readings

IsOutcome(m) == m.kind \in {"COMMITTED", "ERROR"}

\* The messages the collector has received, in order.
Received == [i \in 1..Len(consumed) |-> consumed[i].msg]

\* Every message sent on the outcome channel so far, in sending order.
AllSent == Received \o rx

\* Indexes of a sequence of messages that hold a message of kind k.
KindIn(seq, k) == {i \in 1..Len(seq) : seq[i].kind = k}

\* Indexes of consumed that hold an outcome received after ENDOFRAMPUP
\* (in steady state), for transaction id t.
SteadyOf(t) ==
    {i \in 1..Len(consumed) :
        /\ IsOutcome(consumed[i].msg)
        /\ ~consumed[i].ramping_up
        /\ consumed[i].msg.tx_id = t}

SteadyCommittedOf(t) == {i \in SteadyOf(t) : consumed[i].msg.kind = "COMMITTED"}

\* Sum of the durations (thousandths of a ms) of the messages of consumed at
\* the indexes S.
RECURSIVE SumDuration(_)
SumDuration(S) ==
    IF S = {} THEN 0
    ELSE LET i == CHOOSE j \in S : TRUE
         IN consumed[i].msg.tx_duration_us + SumDuration(S \ {i})

\* Counters every one of which has n_commits <= n_total.
CommitsWithinTotal(cs) ==
    \A t \in DOMAIN cs : cs[t].n_commits <= cs[t].n_total

\* The counter map that counts, per transaction id, the outcomes received in
\* steady state.
SteadyCounters ==
    [t \in {u \in TxIds : SteadyOf(u) # {}} |->
        [n_commits |-> Cardinality(SteadyCommittedOf(t)),
         n_total |-> Cardinality(SteadyOf(t)),
         total_duration_ms |-> SumDuration(SteadyCommittedOf(t))]]

\* ------------------------------------------------------------------ claims

\* C1: in every state of the collector, in the counters it publishes and in
\* the counters the engine stores, every transaction id that has a counter
\* has n_commits <= n_total.
C1_CommitsNeverExceedTotal ==
    /\ CommitsWithinTotal(counters)
    /\ \A i \in 1..Len(rx_counters) : CommitsWithinTotal(rx_counters[i])
    /\ CommitsWithinTotal(self_counters)

\* C1 witness: the engine has stored counters in which one transaction id
\* has both commits and errors.
C1_Witness ==
    /\ engine_pc = "done"
    /\ \E t \in DOMAIN self_counters :
         /\ self_counters[t].n_commits >= 1
         /\ self_counters[t].n_total > self_counters[t].n_commits

\* C2: a step that consumes a COMMITTED or ERROR message while ramping_up
\* holds leaves the counters as they are and appends one line to the file of
\* its kind; the counters change only in a step that consumes an outcome
\* with ramping_up false; once ramping_up is false it stays false.
C2_RampupGate ==
    [][ /\ (SinkCommitted /\ ramping_up) =>
              /\ counters' = counters
              /\ Len(Written(log_file')) = Len(Written(log_file)) + 1
        /\ (SinkError /\ ramping_up) =>
              /\ counters' = counters
              /\ Len(Written(error_file')) = Len(Written(error_file)) + 1
        /\ (counters' # counters) =>
              (~ramping_up /\ (SinkCommitted \/ SinkError))
        /\ (~ramping_up) => ~ramping_up'
      ]_vars

\* C2 witness: outcomes of both kinds were consumed during ramp-up, one
\* more in steady state, and only the last one is counted.
C2_Witness ==
    /\ \E i, j \in 1..Len(consumed) :
         /\ consumed[i].ramping_up /\ consumed[i].msg.kind = "COMMITTED"
         /\ consumed[j].ramping_up /\ consumed[j].msg.kind = "ERROR"
    /\ \E t \in DOMAIN counters : counters[t].n_total = 1
    /\ Cardinality(DOMAIN counters) = 1
    /\ Len(Written(log_file)) + Len(Written(error_file)) = 3

\* C3: the lines written to transaction.log are, in order, those of the
\* COMMITTED messages consumed, and the lines written to error.log those of
\* the ERROR messages consumed, ramp-up or not: the two files together have
\* as many lines as outcomes were consumed.
C3_OneLinePerOutcome ==
    LET committed == SelectSeq(Received, LAMBDA m : m.kind = "COMMITTED")
        errors == SelectSeq(Received, LAMBDA m : m.kind = "ERROR")
        log == Written(log_file)
        err == Written(error_file)
    IN /\ Len(log) = Len(committed)
       /\ Len(err) = Len(errors)
       /\ Len(log) + Len(err) =
            Cardinality({i \in 1..Len(Received) : IsOutcome(Received[i])})
       /\ \A i \in 1..Len(log) :
            /\ log[i].tx_id = committed[i].tx_id
            /\ log[i].duration_ms = committed[i].tx_duration_us
       /\ \A i \in 1..Len(err) :
            /\ err[i].tx_id = errors[i].tx_id
            /\ err[i].error = errors[i].error

\* C3 witness: both files have lines, some written during ramp-up and some
\* in steady state.
C3_Witness ==
    /\ Len(Written(log_file)) >= 1
    /\ Len(Written(error_file)) >= 1
    /\ \E i, j \in 1..Len(consumed) :
         /\ IsOutcome(consumed[i].msg) /\ consumed[i].ramping_up
         /\ IsOutcome(consumed[j].msg) /\ ~consumed[j].ramping_up

\* C4: TERMINATE is on the channel only when every client task has ended;
\* no COMMITTED or ERROR message follows TERMINATE in the channel's sending
\* order; and once the collector has left its loop the channel is empty and
\* it has consumed one outcome for every transaction any client executed.
C4_NoOutcomeLost ==
    /\ KindIn(AllSent, "TERMINATE") # {} =>
         \A c \in 1..args.client : client_pc[c] = "done"
    /\ \A i \in KindIn(AllSent, "TERMINATE") :
         \A j \in 1..Len(AllSent) : j > i => ~IsOutcome(AllSent[j])
    /\ sink_pc # "recv" =>
         /\ rx = <<>>
         /\ \A c \in 1..args.client :
              Cardinality({i \in 1..Len(Received) :
                             /\ IsOutcome(Received[i])
                             /\ Received[i].client_id = c}) = n_tx[c]
         /\ \A c \in 1..args.client : n_tx[c] >= 1

\* C4 witness: the collector has ended after two clients ran, and it
\* received ENDOFRAMPUP between their outcomes.
C4_Witness ==
    /\ sink_pc = "done"
    /\ args.client = 2
    /\ Len(Received) = 4
    /\ Received[2].kind = "ENDOFRAMPUP"

\* C5: ENDOFRAMPUP is sent on the outcome channel at most once, and exactly
\* once as soon as the engine has left its spawn loop; when it is sent every
\* client has been spawned; it precedes TERMINATE in the sending order.
C5_EndOfRampupOnce ==
    /\ Cardinality(KindIn(AllSent, "ENDOFRAMPUP")) =
         (IF engine_pc = "spawn" THEN 0 ELSE 1)
    /\ KindIn(AllSent, "ENDOFRAMPUP") # {} =>
         /\ client_id = args.client
         /\ \A c \in 1..args.client : client_pc[c] # "unspawned"
    /\ \A i \in KindIn(AllSent, "TERMINATE") :
         \E j \in KindIn(AllSent, "ENDOFRAMPUP") : j < i

\* C5 witness: ENDOFRAMPUP has been consumed while a client, which sent an
\* outcome before it, is still in its loop, and the engine is awaiting.
C5_Witness ==
    /\ engine_pc = "await"
    /\ args.client = 2
    /\ \E i \in KindIn(Received, "ENDOFRAMPUP") : i > 1
    /\ \E c \in 1..args.client : client_pc[c] = "loop"

\* The counter map once the collector has published it: on the counters
\* channel or stored by the engine.
PublishedCounters ==
    IF rx_counters # <<>> THEN rx_counters
    ELSE IF engine_pc = "done" THEN <<self_counters>> ELSE <<>>

\* C6 (as stated): once the collector has consumed TERMINATE and published
\* its counters, both log files have already been flushed; the counters are
\* published exactly once and are the collector's counter map; the engine
\* reads them only after the collector thread has ended.
C6_FlushThenPublish ==
    /\ Len(PublishedCounters) >= 1 =>
         /\ log_file.buf = <<>>
         /\ error_file.buf = <<>>
    /\ Len(PublishedCounters) = (IF sink_pc \in {"drop", "done"} THEN 1 ELSE 0)
    /\ \A i \in 1..Len(PublishedCounters) : PublishedCounters[i] = counters
    /\ engine_pc \in {"recv", "done"} => sink_pc = "done"

\* C6 (amended): having consumed TERMINATE the collector publishes its
\* counter map exactly once, and both log files are flushed, every line
\* written being in its file, when the thread has ended (the publication
\* comes first, the flush with the drop of the writers); the published
\* counters are the collector's counter map as TERMINATE found it, and the
\* engine reads them only after the collector thread has ended.
C6_PublishThenFlush ==
    /\ sink_pc = "done" =>
         /\ log_file.buf = <<>>
         /\ error_file.buf = <<>>
         /\ Len(log_file.file) = Cardinality(KindIn(Received, "COMMITTED"))
         /\ Len(error_file.file) = Cardinality(KindIn(Received, "ERROR"))
    /\ Len(PublishedCounters) = (IF sink_pc \in {"drop", "done"} THEN 1 ELSE 0)
    /\ \A i \in 1..Len(PublishedCounters) :
         /\ PublishedCounters[i] = counters
         /\ PublishedCounters[i] = SteadyCounters
    /\ sink_pc # "recv" =>
         /\ KindIn(Received, "TERMINATE") = {Len(Received)}
    /\ engine_pc \in {"recv", "done"} => sink_pc = "done"

\* C6 witness: the engine has stored non-empty counters of a run both log
\* files of which got a line.
C6_Witness ==
    /\ engine_pc = "done"
    /\ DOMAIN self_counters # {}
    /\ Len(log_file.file) >= 1
    /\ Len(error_file.file) >= 1

\* The ordinals of the lines written to the two log files.
WrittenOrdinals ==
    {Written(log_file)[i].ordinal : i \in 1..Len(Written(log_file))}
      \cup {Written(error_file)[i].ordinal : i \in 1..Len(Written(error_file))}

\* The client ids of the outcomes the collector has received.
SeenClientIds ==
    {Received[i].client_id : i \in {j \in 1..Len(Received) : IsOutcome(Received[j])}}

\* C7: the ordinals written into the log lines are exactly 1..k, where k is
\* the number of distinct client ids seen so far.
C7_OrdinalsContiguous ==
    /\ WrittenOrdinals = 1..Cardinality(SeenClientIds)
    /\ n_client = Cardinality(SeenClientIds)
    /\ client_ids = SeenClientIds

\* C7 witness: two clients seen, three lines written.
C7_Witness ==
    /\ Cardinality(SeenClientIds) = 2
    /\ Len(Written(log_file)) + Len(Written(error_file)) = 3

\* The ordinal on the line written for the i-th message received (an
\* outcome): the line is the next one of the file of the message's kind.
OrdinalOf(i) ==
    LET k == Received[i].kind
        nth == Cardinality({j \in 1..i : Received[j].kind = k})
    IN IF k = "COMMITTED" THEN Written(log_file)[nth].ordinal
       ELSE Written(error_file)[nth].ordinal

\* Position, in first-seen order, of the client of the i-th message received.
FirstSeenRank(i) ==
    LET first(c) == CHOOSE j \in 1..Len(Received) :
                       /\ IsOutcome(Received[j]) /\ Received[j].client_id = c
                       /\ \A h \in 1..(j - 1) :
                            ~(IsOutcome(Received[h]) /\ Received[h].client_id = c)
    IN Cardinality({c \in SeenClientIds : first(c) <= first(Received[i].client_id)})

\* C8 (as stated): every line written for the same client_id, in either
\* file, carries the same ordinal, which is the client's position in
\* first-seen order.
C8_OrdinalStable ==
    \A i \in 1..Len(Received) :
       IsOutcome(Received[i]) =>
          /\ OrdinalOf(i) = FirstSeenRank(i)
          /\ \A j \in 1..Len(Received) :
               (IsOutcome(Received[j]) /\ Received[j].client_id = Received[i].client_id)
                  => OrdinalOf(j) = OrdinalOf(i)

\* C9: at every point the counter map counts exactly the outcomes received
\* in steady state: a transaction id has a counter iff such an outcome was
\* received for it, n_total is their number, n_commits the number of the
\* COMMITTED ones and total_duration_ms the sum of their durations; the
\* counters published and the counters the engine stores are that map.
C9_CountersCountSteadyOutcomes ==
    /\ counters = SteadyCounters
    /\ \A i \in 1..Len(PublishedCounters) : PublishedCounters[i] = SteadyCounters

\* C9 witness: in steady state one transaction id got two commits of
\* different clients and the other id an error only.
C9_Witness ==
    /\ \E t \in DOMAIN counters :
         /\ counters[t].n_commits = 2
         /\ counters[t].n_total = 2
         /\ counters[t].total_duration_ms = 1500 + 2500
    /\ \E t \in DOMAIN counters :
         /\ counters[t].n_commits = 0
         /\ counters[t].n_total = 1
         /\ counters[t].total_duration_ms = 0

\* C10: sleep_ms is floor(rampup*1000 / client); client n is spawned after n
\* sleeps of sleep_ms with deadline time*1000 + rampup*1000 - n*sleep_ms,
\* which is never below time*1000; spawn offset plus deadline is the same
\* time*1000 + rampup*1000 for every client; with rampup = 0 there is no
\* sleep and every deadline is time*1000.
C10_RampupSchedule ==
    LET nap == (args.rampup * 1000) \div args.client IN
    /\ slept_ms = client_id * nap
    /\ \A n \in 1..client_id :
         /\ spawn_ms[n] = n * nap
         /\ duration_ms[n] = args.time * 1000 + args.rampup * 1000 - n * nap
         /\ duration_ms[n] >= args.time * 1000
         /\ spawn_ms[n] + duration_ms[n] = args.time * 1000 + args.rampup * 1000
         /\ args.rampup = 0 => (spawn_ms[n] = 0 /\ duration_ms[n] = args.time * 1000)

\* C10 witness: the last of several clients is spawned with a ramp-up that
\* the number of clients does not divide, so its deadline is above time*1000.
C10_Witness ==
    /\ client_id = args.client
    /\ args.client >= 3
    /\ args.rampup >= 1
    /\ (args.rampup * 1000) % args.client # 0
    /\ duration_ms[client_id] > args.time * 1000

\* C11 (as stated): the ramp-up time recorded when ENDOFRAMPUP is sent is at
\* least rampup*1000 ms, the sleeps of the spawn loop adding up to at least
\* the configured ramp-up length.
C11_RampupTimeAtLeastConfigured ==
    engine_pc # "spawn" =>
        /\ slept_ms >= args.rampup * 1000
        /\ rampup_time_ms >= args.rampup * 1000

\* The outcomes client c has sent, in sending order.
SentBy(c) ==
    SelectSeq(AllSent, LAMBDA m : IsOutcome(m) /\ m.client_id = c)

C13_ConnectionFailureExits ==
    /\ exit_code \in {0, 1}
    /\ exit_code = 1 => \E c \in 1..args.client : client_pc[c] = "connect"
    /\ \A i \in 1..Len(AllSent) :
         AllSent[i].kind = "ERROR" => AllSent[i].error # ConnectionError

\* The new_order rows a Delivery on warehouse w is to deliver in the
\* database d: for every district that has one, the row with the smallest
\* no_o_id.
Oldest(d, w) ==
    {k \in DOMAIN d :
        /\ k[1] = "new_order" /\ k[2] = w
        /\ \A y \in NewOrderKeys(d, w, k[3]) : k[4] <= y[4]}

\* The database after a Delivery on warehouse w with the carrier c has
\* delivered those orders of the database d: their new_order rows are
\* gone, the orders have the carrier, their lines a delivery date, and the
\* customer of each has one delivery more and the amount of its lines on
\* the balance; every other row is as it was.
DeliveryEffect(d, w, c) ==
    [k \in DOMAIN d \ Oldest(d, w) |->
        CASE k[1] = "orders" /\ <<"new_order", k[2], k[3], k[4]>> \in Oldest(d, w)
               -> [d[k] EXCEPT !.o_carrier_id = c]
          [] k[1] = "order_line"
               /\ <<"new_order", k[2], k[3], k[4]>> \in Oldest(d, w)
               -> [d[k] EXCEPT !.ol_delivery_d = 1]
          [] k[1] = "customer"
               /\ \E n \in Oldest(d, w) :
                     /\ n[3] = k[3]
                     /\ <<"orders", w, n[3], n[4]>> \in DOMAIN d
                     /\ d[<<"orders", w, n[3], n[4]>>].o_c_id = k[4]
               /\ k[2] = w
               -> LET n == CHOOSE n \in Oldest(d, w) : n[3] = k[3]
                  IN [d[k] EXCEPT
                        !.c_delivery_cnt = @ + 1,
                        !.c_balance = @ + SumAmount(d,
                                            OrderLineKeys(d, w, n[3], n[4]))]
          [] OTHER -> d[k]]

\* C18 (as stated): the COMMIT of a Delivery on warehouse w changes the
\* database by the delivery of one order per district: a district without
\* new_order row is left as it is; for every other the new_order row with
\* the smallest no_o_id is deleted, its order gets the carrier, the order's
\* lines their delivery date, and the order's customer one delivery more
\* and the sum of ol_amount*ol_quantity of the lines on the balance.
C18_DeliveryEffect ==
    [][ \A s \in DOMAIN session :
          (TxCommit(s) /\ session[s].tx_id = 1) =>
             db' = DeliveryEffect(db, session[s].warehouse_id,
                                  session[s].carrier_id)
      ]_vars


\* The Delivery of session s has selected a new_order row and is at the
\* statement that finds the order of that row, or the lines of that order,
\* missing.
MissingOrder(s) ==
    /\ session[s].pc = "d_orders"
    /\ <<"orders", session[s].warehouse_id, session[s].district_id,
         session[s].order_id>> \notin DOMAIN Visible(s)
MissingLines(s) ==
    /\ session[s].pc = "d_sum"
    /\ OrderLineKeys(Visible(s), session[s].warehouse_id,
                     session[s].district_id, session[s].order_id) = {}

\* C19 (as stated): when the new_order row that Delivery selected has no
\* orders row, or its order has no order_line row, the step of Delivery that
\* finds it out rolls the transaction back and returns an error: nothing is
\* committed and the database is as before.
C19_MissingRowsRollBack ==
    [][ \A s \in DOMAIN session :
          /\ (DeliveryOrders(s) /\ MissingOrder(s)) \/
             (DeliverySum(s) /\ MissingLines(s))
          => /\ session'[s].pc = "returned"
             /\ session'[s].result = "Err"
             /\ session'[s].n_rollback = 1
             /\ session'[s].n_commit = 0
             /\ db' = db
      ]_vars


\* The routine of session s returns (or panics) in this step.
Returns(s) == session[s].pc # "returned" /\ session'[s].pc = "returned"

\* C14 (as stated): a routine that has returned has opened exactly one
\* transaction and ended it with exactly one COMMIT or one ROLLBACK; it has
\* returned Ok exactly when it issued COMMIT, and an error when it issued
\* ROLLBACK.
C14_OneTransactionOkIffCommit ==
    \A s \in DOMAIN session :
      session[s].pc = "returned" =>
        /\ session[s].n_begin = 1
        /\ session[s].n_commit + session[s].n_rollback = 1
        /\ session[s].result = "Ok" <=> session[s].n_commit = 1
        /\ session[s].n_rollback = 1 => session[s].result = "Err"

\* C14 (amended): a routine opens at most one transaction, and none only
\* when opening it fails, which it returns as an error; a transaction that
\* was opened ends with exactly one COMMIT or one ROLLBACK (sent by the
\* routine, or by the drop of the handle when a statement fails or the
\* routine panics); Ok is returned only after a COMMIT that succeeded, an
\* Err or nothing (a panic) otherwise; a routine whose transaction was
\* rolled back never returns Ok and leaves the database as it was.
C14_AtMostOneTransaction ==
    [][ \A s \in DOMAIN session :
          Returns(s) =>
            LET r == session'[s]
            IN /\ r.n_begin \in {0, 1}
               /\ r.n_begin = 0 =>
                    /\ r.n_commit = 0 /\ r.n_rollback = 0
                    /\ r.result = "Err" /\ db' = db
               /\ r.n_begin = 1 => r.n_commit + r.n_rollback = 1
               /\ r.result = "Ok" => r.n_commit = 1 /\ TxCommit(s)
               /\ r.n_rollback = 1 =>
                    /\ r.result \in {"Err", "panic"}
                    /\ db' = db
      ]_vars

\* A Payment has been rolled back for a customer that is not there and has
\* returned the error.
C14_Witness ==
    \E s \in DOMAIN session :
      /\ session[s].pc = "returned" /\ session[s].tx_id = 3
      /\ session[s].n_begin = 1 /\ session[s].n_rollback = 1
      /\ session[s].n_commit = 0 /\ session[s].result = "Err"
      /\ session[s].error =
           "Payment transaction rollbacked. Customer not found."


\* The error New-Order returns when the item of a line is not there.
ItemNotFound == "New-order transaction rollbacked. Item not found."

\* C15: a New-Order that drew rbk = 1 has 999999 as the ol_i_id of its
\* first line; its item lookup finds no row and rolls the transaction back;
\* the routine never returns Ok and no step of it changes a row (the
\* district's d_next_o_id, orders, new_order, stock, order_line); its
\* outcome is an ERROR, which the collector in the steady state counts
\* for tx_id 2 with n_commits = 0 and n_total > 0.
C15_RbkRollsBack ==
    [][ \A s \in DOMAIN session :
          (session[s].tx_id = 2 /\ session[s].rbk_drawn = 1) =>
            /\ session[s].order_line_data # <<>> =>
                 session[s].order_line_data[1].ol_i_id = InvalidItemId
            /\ NewOrderItem(s) =>
                 /\ session[s].ol_number = 1
                 /\ session'[s].pc = "returned"
                 /\ session'[s].error = ItemNotFound
                 /\ session'[s].n_rollback = 1
            /\ session'[s].result \in {"none", "Err"}
            /\ session'[s].n_commit = 0
            /\ db' = db
            /\ ClientOutcome(s) => rx'[Len(rx')].kind = "ERROR"
            /\ 2 \in DOMAIN counters' =>
                 /\ counters'[2].n_commits = 0
                 /\ counters'[2].n_total > 0
            /\ (session[s].pc = "sent" /\ rx = <<>>) => 2 \in DOMAIN counters
      ]_vars

\* A New-Order that drew rbk = 1 was rolled back at its first item, and the
\* collector has counted its ERROR.
C15_Witness ==
    \E s \in DOMAIN session :
      /\ session[s].tx_id = 2 /\ session[s].rbk_drawn = 1
      /\ session[s].pc = "sent"
      /\ session[s].error = ItemNotFound
      /\ session[s].n_rollback = 1
      /\ rx = <<>>
      /\ counters = [t \in {2} |-> [n_commits |-> 0, n_total |-> 1,
                                     total_duration_ms |-> 0]]
      /\ db = LoadedDb


\* The orders row a New-Order has inserted in its open transaction.
InsertedOrder(s) ==
    session[s].put[<<"orders", session[s].warehouse_id,
                     session[s].district_id, session[s].o_id>>]

\* C16: the line specs New-Order generates have pairwise distinct ol_i_id,
\* the corrupted 999999 included; once the generation is over there are
\* ol_cnt of them, ol_cnt is one of the values the draw allows (5..=15 in
\* the code), and it is the o_ol_cnt of the orders row that is inserted.
C16_DistinctItemsOlCntLines ==
    \A s \in DOMAIN session :
      LET ss == session[s]
          lines == ss.order_line_data
      IN (ss.tx_id = 2 /\ ss.pc # "returned" /\ ss.pc # "sent") =>
           /\ \A i, j \in 1..Len(lines) :
                i # j => lines[i].ol_i_id # lines[j].ol_i_id
           /\ \A i \in 1..Len(lines) : lines[i].ol_number = i
           /\ ss.ol_cnt \in OlCnts
           /\ Len(lines) <= ss.ol_cnt
           /\ ss.pc # "n_gen" => Len(lines) = ss.ol_cnt
           /\ ss.pc \in {"n_item", "n_stock", "commit"} =>
                InsertedOrder(s).o_ol_cnt = Len(lines)

\* A New-Order of the most lines that drew rbk = 1 has generated its lines,
\* the first of them corrupted, and has inserted its orders row.
C16_Witness ==
    \E s \in DOMAIN session :
      /\ session[s].tx_id = 2 /\ session[s].pc = "n_item"
      /\ session[s].rbk_drawn = 1
      /\ session[s].ol_cnt = MaxOlCnt
      /\ Len(session[s].order_line_data) = MaxOlCnt
      /\ session[s].order_line_data[1].ol_i_id = InvalidItemId
      /\ InsertedOrder(s).o_ol_cnt = MaxOlCnt

\* The lines of the New-Order of session s that another warehouse supplies.
RemoteLines(s) ==
    {i \in 1..Len(session[s].order_line_data) :
       session[s].order_line_data[i].ol_supply_w_id # session[s].warehouse_id}

\* C17: a line of a New-Order is supplied by a warehouse other than
\* warehouse_id only when the run has more than one warehouse, and then by
\* a warehouse of [start_id, end_id]; ol_all_local is 0 exactly when some
\* line is supplied by another warehouse, 1 otherwise, and it is what the
\* orders row gets; with one warehouse every line is local and
\* ol_all_local is 1.
C17_RemoteLinesAllLocal ==
    \A s \in DOMAIN session :
      LET ss == session[s]
          lines == ss.order_line_data
      IN (ss.tx_id = 2 /\ ss.pc # "returned" /\ ss.pc # "sent") =>
           /\ \A i \in RemoteLines(s) :
                /\ tpcc.end_id > tpcc.start_id
                /\ lines[i].ol_supply_w_id \in tpcc.start_id..tpcc.end_id
           /\ ss.ol_all_local \in {0, 1}
           /\ ss.ol_all_local = 0 <=> RemoteLines(s) # {}
           /\ tpcc.end_id = tpcc.start_id =>
                RemoteLines(s) = {} /\ ss.ol_all_local = 1
           /\ ss.pc \in {"n_item", "n_stock", "commit"} =>
                InsertedOrder(s).o_all_local = ss.ol_all_local

\* A New-Order of a run on two warehouses is about to commit an order with
\* a line of its own warehouse and a line of the other one.
C17_Witness ==
    \E s \in DOMAIN session :
      /\ session[s].tx_id = 2 /\ session[s].pc = "commit"
      /\ tpcc.end_id > tpcc.start_id
      /\ RemoteLines(s) # {}
      /\ RemoteLines(s) # 1..Len(session[s].order_line_data)
      /\ session[s].ol_all_local = 0
      /\ InsertedOrder(s).o_all_local = 0


\* C20: Order-Status and Stock-Level are read-only: whatever they draw and
\* however they end (COMMIT, a COMMIT that fails, a rollback of the routine,
\* a statement that fails), no step of them writes or deletes a row in the
\* open transaction and every row of the database stays as it was.
C20_ReadOnlyRoutines ==
    [][ \A s \in DOMAIN session :
          session[s].tx_id \in {4, 5} =>
            /\ db' = db
            /\ session'[s].put = <<>>
            /\ session'[s].del = {}
      ]_vars

\* A Stock-Level has committed on the loaded database, which is as it was
\* loaded, and its COMMITTED message is sent.
C20_Witness ==
    \E s \in DOMAIN session :
      /\ session[s].pc = "sent"
      /\ db = LoadedDb
      /\ session[s].tx_id = 5
      /\ session[s].result = "Ok"
      /\ session[s].n_commit = 1
      /\ rx # <<>> /\ rx[1].kind = "COMMITTED" /\ rx[1].tx_id = 5


\* The stages the `init` command is to print, in order.
InitStages(no_fkey) ==
    <<MsgSchema, MsgPreLoad, MsgLoad, MsgPrimaryKeys>>
    \o (IF no_fkey THEN <<>> ELSE <<MsgForeignKeys>>)
    \o <<MsgIndexes, MsgVacuum, MsgCheckpoint>>

\* C21 (as stated): `init` runs its stages strictly in this order:
\* initialize the schema, pre-load item, load the data, add the primary
\* keys, add the foreign keys unless suppressed, add the indexes, vacuum,
\* and finally exactly one CHECKPOINT; when the command has returned, all
\* of them have run.
C21_InitStagesInOrder ==
    (main_pc # "none" /\ cmd_args.action = "init") =>
        /\ Len(stages) <= Len(InitStages(cmd_args.no_fkey))
        /\ stages = SubSeq(InitStages(cmd_args.no_fkey), 1, Len(stages))
        /\ main_pc = "exit" => stages = InitStages(cmd_args.no_fkey)

\* C22 (as stated): when `run` prints the summary and the response-time
\* tables, the Result Aggregator of this run has been invoked after the
\* collector published its counters, and the statistics files that
\* print_results read were written by it.
C22_AggregatorBeforePrint ==
    summary # <<>> =>
        /\ \E i \in 1..Len(stages) : stages[i] = MsgAggregate
        /\ \A t \in TxIds : target_dir[StatsFile(t)] = ThisRun

\* The steady-state window of a run: from the end-of-ramp-up message to
\* the end of the last client.
SteadyStateMs == total_time_ms - rampup_time_ms

\* C26 (as stated): in the printed summary of every transaction, n_errors
\* is n_total - n_commits, and tpm and tps are n_commits divided by the
\* steady-state duration (per minute and per second), not by a duration
\* that includes the ramp-up.
C26_SummaryOverSteadyState ==
    summary # <<>> =>
        \A t \in TxIds :
            /\ summary[t].n_errors
                 = self_counters[t].n_total - self_counters[t].n_commits
            /\ summary[t].tpm
                 = PerSeconds(self_counters[t].n_commits,
                              AsSecs(SteadyStateMs), 60)
            /\ summary[t].tps
                 = PerSeconds(self_counters[t].n_commits,
                              AsSecs(SteadyStateMs), 1)


\* The places (job, index in the calls of its session) where the statement
\* at position i was executed.
ExecutedAt(i) ==
    { <<j, k>> \in (DOMAIN executed) \X (1..(3 * MaxStmts + 4)) :
        /\ k <= Len(executed[j])
        /\ executed[j][k].op = "batch_execute"
        /\ executed[j][k].stmt = i }

\* The calls that returned an error.
FailedCalls ==
    { <<j, k>> \in (DOMAIN executed) \X (1..(3 * MaxStmts + 4)) :
        k <= Len(executed[j]) /\ ~executed[j][k].ok }

\* C23: exec_stmts with n_jobs >= 1 deals the statements round-robin to the
\* jobs; no statement is executed twice, and when exec_stmts has returned
\* every statement has been executed exactly once.  A job executes its
\* statements in list order on its own session, each between the opening
\* and the commit of a transaction of its own when use_transaction is
\* true, with no transaction otherwise.  The first call that fails ends
\* the process with exit code 1: nothing is executed after it and
\* exec_stmts does not return.
C23_ExecStmts ==
    main_pc \in {"join", "returned"} =>
        /\ \A i \in 1..Len(cmd_args.stmts) :
             /\ Cardinality(ExecutedAt(i)) <= 1
             /\ main_pc = "returned" => Cardinality(ExecutedAt(i)) = 1
        /\ \A i, k \in 1..Len(cmd_args.stmts) :
             \A p \in ExecutedAt(i), q \in ExecutedAt(k) :
                /\ (p[1] = q[1]) <=> (i % cmd_args.n_jobs = k % cmd_args.n_jobs)
                /\ (p[1] = q[1] /\ i < k) => p[2] < q[2]
        /\ \A j \in DOMAIN executed :
             \A n \in 1..Len(executed[j]) :
                LET call == executed[j][n] IN
                  /\ n = 1 <=> call.op = "connect"
                  /\ call.op = "batch_execute" =>
                       IF cmd_args.use_transaction
                       THEN /\ executed[j][n - 1].op = "transaction"
                            /\ n < Len(executed[j]) =>
                                 executed[j][n + 1].op = "commit"
                       ELSE n > 1
                  /\ call.op \in {"transaction", "commit"} =>
                       cmd_args.use_transaction
                  /\ call.op = "transaction" /\ n < Len(executed[j]) =>
                       executed[j][n + 1].op = "batch_execute"
                  /\ ~call.ok => n = Len(executed[j])
        /\ FailedCalls # {} =>
             /\ Cardinality(FailedCalls) = 1
             /\ exit_code = 1
             /\ main_pc # "returned"

\* exec_stmts has returned from three statements dealt to two jobs, each
\* executed in a transaction of its own: one by job 1, two by job 2.
C23_Witness ==
    /\ main_pc = "returned"
    /\ cmd_args.n_jobs = 2
    /\ cmd_args.use_transaction
    /\ Len(cmd_args.stmts) = 3
    /\ Len(executed[1]) = 4
    /\ Len(executed[2]) = 7


\* The places (job, index) where a job started to load the warehouse w.
LoadedAt(w) ==
    { <<j, k>> \in (DOMAIN executed) \X (1..cmd_args.scalefactor) :
        k <= Len(executed[j]) /\ executed[j][k] = w }

\* The (district, warehouse) pairs that the rows of the tables carry.
DistrictsOfRows ==
    {<<r.d_id, r.d_w_id>> : r \in DOMAIN tables.district}
    \cup {<<r.c_d_id, r.c_w_id>> : r \in DOMAIN tables.customer}
    \cup {<<r.h_c_d_id, r.h_c_w_id>> : r \in DOMAIN tables.history}
    \cup {<<r.h_d_id, r.h_w_id>> : r \in DOMAIN tables.history}
    \cup {<<r.o_d_id, r.o_w_id>> : r \in DOMAIN tables.orders}
    \cup {<<r.no_d_id, r.no_w_id>> : r \in DOMAIN tables.new_order}
    \cup {<<r.ol_d_id, r.ol_w_id>> : r \in DOMAIN tables.order_line}

\* C24: no generated row carries a district id outside 1..10 (NDistrict
\* at the scale of the model) or the id of a warehouse outside 1..=S, and
\* no row is written twice.  After load_data with scalefactor S and J >= 1
\* jobs has returned, every warehouse id in 1..=S has been loaded by exactly
\* one job exactly once, the row counts are warehouse = S, district = 10 S,
\* stock = 100000 S (MaxItem S), customer, history and orders = 30000 S
\* (NDistrict NOrders S), item = 100000 (MaxItem), new_order = 9000 S: the
\* order ids 2101..3000 (NDelivered + 1 .. NOrders) of every district, and
\* no two rows of a table have the same primary key.
C24_LoadData ==
    main_pc \in {"join", "returned"} =>
      LET S == cmd_args.scalefactor IN
        /\ DistrictsOfRows \subseteq (1..NDistrict) \X (1..S)
        /\ \A t \in DOMAIN tables : \A r \in DOMAIN tables[t] :
             tables[t][r] = 1
        /\ \A w \in 1..S : Cardinality(LoadedAt(w)) <= 1
        /\ main_pc = "returned" =>
             /\ \A w \in 1..S : Cardinality(LoadedAt(w)) = 1
             /\ Cardinality(DOMAIN tables.warehouse) = S
             /\ Cardinality(DOMAIN tables.district) = NDistrict * S
             /\ Cardinality(DOMAIN tables.stock) = MaxItem * S
             /\ Cardinality(DOMAIN tables.customer) = NDistrict * NOrders * S
             /\ Cardinality(DOMAIN tables.history) = NDistrict * NOrders * S
             /\ Cardinality(DOMAIN tables.orders) = NDistrict * NOrders * S
             /\ Cardinality(DOMAIN tables.item) = MaxItem
             /\ DOMAIN tables.new_order =
                  { [no_o_id |-> o, no_d_id |-> d, no_w_id |-> w] :
                      o \in (NDelivered + 1)..NOrders, d \in 1..NDistrict,
                      w \in 1..S }
             /\ Cardinality({r.w_id : r \in DOMAIN tables.warehouse}) = S
             /\ Cardinality({<<r.d_w_id, r.d_id>> :
                               r \in DOMAIN tables.district})
                  = Cardinality(DOMAIN tables.district)
             /\ Cardinality({<<r.s_w_id, r.s_i_id>> :
                               r \in DOMAIN tables.stock})
                  = Cardinality(DOMAIN tables.stock)
             /\ Cardinality({<<r.c_w_id, r.c_d_id, r.c_id>> :
                               r \in DOMAIN tables.customer})
                  = Cardinality(DOMAIN tables.customer)
             /\ Cardinality({<<r.o_w_id, r.o_d_id, r.o_id>> :
                               r \in DOMAIN tables.orders})
                  = Cardinality(DOMAIN tables.orders)
             /\ Cardinality({<<r.ol_w_id, r.ol_d_id, r.ol_o_id, r.ol_number>> :
                               r \in DOMAIN tables.order_line})
                  = Cardinality(DOMAIN tables.order_line)
             /\ Cardinality({r.i_id : r \in DOMAIN tables.item}) = MaxItem

\* load_data has returned from three warehouses loaded by two jobs, one of
\* which loaded two of them.
C24_Witness ==
    /\ main_pc = "returned"
    /\ cmd_args.scalefactor = 3
    /\ cmd_args.jobs = 2
    /\ Len(executed[2]) = 2
    /\ Cardinality(DOMAIN tables.new_order) = 3 * NDistrict * (NOrders - NDelivered)

\* The order_line rows loaded for the order o.
LinesOf(o) ==
    { l \in DOMAIN tables.order_line :
        l.ol_o_id = o.o_id /\ l.ol_d_id = o.o_d_id /\ l.ol_w_id = o.o_w_id }

\* C25: every loaded order has
\* o_ol_cnt = (orders_id * (orders_id + district_id + warehouse_id)) mod 11 + 5,
\* which lies in 5..15, and has o_carrier_id set exactly when orders_id <
\* 2101 (NDelivered + 1 at the scale of the model); after load_data has
\* returned the order has o_ol_cnt order_line rows, numbered 1..o_ol_cnt.
C25_OrderLines ==
    main_pc \in {"join", "returned"} =>
      \A o \in DOMAIN tables.orders :
        /\ o.o_ol_cnt = ((o.o_id * (o.o_id + o.o_d_id + o.o_w_id)) % 11) + 5
        /\ o.o_ol_cnt \in 5..15
        /\ o.o_carrier_id # "" <=> o.o_id < NDelivered + 1
        /\ main_pc = "returned" =>
             /\ Cardinality(LinesOf(o)) = o.o_ol_cnt
             /\ {l.ol_number : l \in LinesOf(o)} = 1..o.o_ol_cnt
             /\ \A l \in LinesOf(o) : tables.order_line[l] = 1

\* load_data has returned and has loaded a delivered order of 8 lines
\* and an undelivered order of 13 lines.
C25_Witness ==
    /\ main_pc = "returned"
    /\ \E o \in DOMAIN tables.orders :
         o.o_carrier_id # "" /\ Cardinality(LinesOf(o)) = 8
    /\ \E o \in DOMAIN tables.orders :
         o.o_carrier_id = "" /\ Cardinality(LinesOf(o)) = 13


\* The lines of the log that a tpm file covers: those of its transaction
\* id, or all of them for pgmtr-tpm-all.csv.
Covered(file) ==
    LET df == target_dir[LOG_FILE] IN
    IF file = TpmAllFile
    THEN 1..Len(df)
    ELSE {i \in 1..Len(df) : TpmFile(df[i].column_3) = file}

\* The sum of the tpm column of the first n rows.
RECURSIVE SumTpm(_, _)
SumTpm(rows, n) == IF n = 0 THEN 0 ELSE SumTpm(rows, n - 1) + rows[n].tpm

\* C27: every tpm file that the aggregator has written (one per
\* transaction id, and pgmtr-tpm-all.csv over all ids) has one row per
\* distinct timestamp second that has a record the file covers, with tpm =
\* 60 x the number of covered records of that second and time_s = the
\* second minus the earliest timestamp of the covered records; the rows
\* are sorted by time_s, and the tpm column sums to 60 x the number of
\* records covered.  When the aggregation has returned, every one of
\* these files is written.
C27_TpmRows ==
    LOG_FILE \in DOMAIN target_dir =>
      LET df == target_dir[LOG_FILE]
          files == {TpmFile(t) : t \in 1..Len(TransactionsRw)}
                     \cup {TpmAllFile}
      IN /\ main_pc = "returned" => files \subseteq DOMAIN target_dir
         /\ \A file \in files \cap DOMAIN target_dir :
              LET rows == target_dir[file]
                  seconds == {df[i].column_1 : i \in Covered(file)}
              IN /\ Len(rows) = Cardinality(seconds)
                 /\ \A s \in seconds :
                      \E n \in 1..Len(rows) :
                         /\ rows[n].time_s + MinTimestamp(df, Covered(file)) = s
                         /\ rows[n].tpm =
                              60 * Cardinality({i \in Covered(file) :
                                                  df[i].column_1 = s})
                 /\ \A n \in 1..(Len(rows) - 1) :
                      rows[n].time_s < rows[n + 1].time_s
                 /\ SumTpm(rows, Len(rows)) = 60 * Cardinality(Covered(file))

\* The aggregation has returned from a log of three records in two
\* seconds: two of transaction 2 in the later second, one of transaction 1
\* in the earlier one.
C27_Witness ==
    /\ main_pc = "returned"
    /\ LOG_FILE \in DOMAIN target_dir
    /\ target_dir[TpmFile(2)] = <<[time_s |-> 0, tpm |-> 120]>>
    /\ target_dir[TpmFile(1)] = <<[time_s |-> 0, tpm |-> 60]>>
    /\ target_dir[TpmAllFile] =
         <<[time_s |-> 0, tpm |-> 60], [time_s |-> 1, tpm |-> 120]>>

\* C28 (as stated): when the aggregation fails for any transaction, on a
\* malformed log or on a failing step, the error is fatal and no pgmtr-*.csv
\* file of this run is left: none has been written for a transaction
\* processed before the failure.
C28_NoPartialCsv ==
    (LOG_FILE \in DOMAIN target_dir /\ exit_code # 0) =>
        (exit_code = 1 /\ DOMAIN target_dir = {LOG_FILE})


\* C29 (as stated): a client has at most one transaction in flight and
\* checks its deadline only between transactions; a transaction it
\* executes runs to completion, commit or error, and yields exactly one
\* outcome message, COMMITTED or ERROR, so the client has sent as many
\* outcomes as it has executed transactions; a client whose loop has ended
\* has executed at least one transaction, whatever its duration_ms.
C29_OneOutcomePerTransaction ==
    \A c \in 1..args.client :
        /\ Len(SentBy(c)) = n_tx[c]
        /\ \A i \in 1..Len(SentBy(c)) :
             SentBy(c)[i].kind \in {"COMMITTED", "ERROR"}
        /\ client_pc[c] = "done" => n_tx[c] >= 1
        /\ deadline_reached[c] => client_pc[c] = "done"
        /\ c \in DOMAIN session =>
             /\ session[c].pc = "returned" =>
                  session[c].result \in {"Ok", "Err"}
             /\ session[c].pc = "sent" <=> n_tx[c] = 1


\* The key of the district a New-Order session works on.
DistrictOf(ss) == <<"district", ss.warehouse_id, ss.district_id>>

\* The committed orders of (w, d) that the load did not insert: the orders
\* of the committed New-Orders on the district.
NewOrdersOf(w, d) ==
    {k \in DOMAIN db \ DOMAIN LoadedDb :
       k[1] = "orders" /\ k[2] = w /\ k[3] = d}

\* The UPDATE of the district by session s happens in this step.
TakesOrderId(s) ==
    /\ session[s].pc = "n_district"
    /\ session'[s].pc = "n_insert"

\* The New-Order of session s commits in this step.
NewOrderCommits(s) ==
    /\ session[s].tx_id = 2
    /\ session[s].pc = "commit"
    /\ session'[s].pc = "returned"

\* What C30 says of one step.
C30_Step ==
    \A s \in DOMAIN session :
      LET ss == session[s]
          k == DistrictOf(ss)
          o == <<"orders", ss.warehouse_id, ss.district_id, ss.o_id>>
      IN /\ TakesOrderId(s) =>
              /\ session'[s].o_id = db[k].d_next_o_id
              /\ session'[s].put[k].d_next_o_id = session'[s].o_id + 1
         /\ NewOrderCommits(s) =>
              /\ db[k].d_next_o_id = ss.o_id
              /\ db'[k].d_next_o_id = ss.o_id + 1
              /\ o \notin DOMAIN db
              /\ o \in DOMAIN db'

\* What C30 says of every state: each district's d_next_o_id is the loaded
\* one plus the number of orders committed on it since, and there are as
\* many such orders as New-Orders that committed.
C30_Count ==
    /\ \A w \in tpcc.start_id..tpcc.end_id, d \in DistrictIds :
         db[<<"district", w, d>>].d_next_o_id =
           LoadedDb[<<"district", w, d>>].d_next_o_id
             + Cardinality(NewOrdersOf(w, d))
    /\ Cardinality(UNION {NewOrdersOf(w, d) :
                            w \in tpcc.start_id..tpcc.end_id,
                            d \in DistrictIds})
         = Cardinality({s \in DOMAIN session : session[s].n_commit = 1})

\* C30: a New-Order takes as o_id the d_next_o_id the district had before
\* the increment and its commit leaves d_next_o_id = o_id + 1; whatever the
\* interleaving of the New-Orders on a district, every commit adds an order
\* with an o_id no committed order has, and d_next_o_id is its loaded
\* value plus the number of New-Orders committed on the district.
C30_NewOrderIds == [](C30_Count) /\ [][C30_Step]_vars

\* Both sessions have committed a New-Order on district 1 of warehouse 1,
\* whose d_next_o_id is two more than the loaded one.
C30_Witness ==
    /\ \A s \in DOMAIN session :
         session[s].tx_id = 2 /\ session[s].n_commit = 1
    /\ Cardinality(NewOrdersOf(1, 1)) = 2
    /\ db[<<"district", 1, 1>>].d_next_o_id
         = LoadedDb[<<"district", 1, 1>>].d_next_o_id + 2


\* The ids the comment of load_data gives job j of n_jobs: those of
\* 1..scalefactor congruent to j modulo n_jobs, in increasing order.
IdsOfComment(scalefactor, n_jobs, j) ==
    SelectSeq([n \in 1..scalefactor |-> n],
              LAMBDA n : (n % n_jobs) = (j % n_jobs))

\* C31: a job that load_data has spawned and that has not started yet holds
\* the warehouse ids congruent to its 1-based number modulo n_jobs, in
\* increasing order, and the numbers of ids of two jobs differ by at most
\* one.
C31_ShardsAsComment ==
    \A j \in DOMAIN jobs :
      (main_pc = "join" /\ jobs[j].pc = "connect") =>
        /\ jobs[j].job_ids
             = IdsOfComment(cmd_args.scalefactor, cmd_args.jobs, j)
        /\ \A i \in DOMAIN jobs :
             jobs[i].pc = "connect" =>
               Len(jobs[j].job_ids) - Len(jobs[i].job_ids) \in {-1, 0, 1}


\* The orders of customer c of (w, d) that were loaded undelivered and that
\* the database has with a carrier: the orders of c delivered since the load.
DeliveredSince(w, d, c) ==
    {o \in DOMAIN db \cap DOMAIN LoadedDb :
       /\ o[1] = "orders" /\ o[2] = w /\ o[3] = d
       /\ db[o].o_c_id = c
       /\ LoadedDb[o].o_carrier_id = 0
       /\ db[o].o_carrier_id # 0}

\* SUM(ol_amount * ol_quantity) of the lines of the orders O.
RECURSIVE AmountOf(_)
AmountOf(O) ==
    IF O = {} THEN 0
    ELSE LET o == CHOOSE x \in O : TRUE
         IN SumAmount(db, OrderLineKeys(db, o[2], o[3], o[4]))
              + AmountOf(O \ {o})

\* C32: each order is delivered at most once: whatever the interleaving of
\* the Deliveries, a customer's c_delivery_cnt has grown by no more than the
\* number of its orders that were delivered, and its c_balance by no more
\* than the amount of these orders.
C32_DeliveredAtMostOnce ==
    \A k \in DOMAIN db :
      k[1] = "customer" =>
        /\ db[k].c_delivery_cnt - LoadedDb[k].c_delivery_cnt
             <= Cardinality(DeliveredSince(k[2], k[3], k[4]))
        /\ db[k].c_balance - LoadedDb[k].c_balance
             <= AmountOf(DeliveredSince(k[2], k[3], k[4]))


\* C33: stock decrements are never lost: for every stock row, whatever the
\* interleaving of the committed New-Orders, s_quantity is congruent modulo
\* 91 to the loaded s_quantity minus s_ytd, the sum of the quantities
\* ordered.
C33_StockDecrementsKept ==
    \A k \in DOMAIN db :
      k[1] = "stock" =>
        ((db[k].s_quantity + db[k].s_ytd) % 91) = (LoadedDb[k].s_quantity % 91)


\* C34: a stock row loaded with a quantity of 10..100 and updated by
\* New-Orders of quantities 1..10, one after the other, has its s_quantity
\* within 10..101 at all times, hence never negative, and at 11 or more
\* once it has been updated.
C34_StockQuantityRange ==
    \A k \in DOMAIN db :
      k[1] = "stock" =>
        /\ db[k].s_quantity \in 10..101
        /\ db[k].s_quantity >= 0
        /\ db[k].s_order_cnt >= 1 => db[k].s_quantity >= 11

\* A row has been refilled to the most, 101, by the second of two orders
\* of quantity 10: it was loaded with 30, the first order left 20 and the
\* second would have left 10.
C34_Witness ==
    \E k \in DOMAIN db :
      /\ k[1] = "stock"
      /\ db[k].s_order_cnt = 2
      /\ db[k].s_quantity = 101
      /\ db[k].s_ytd = 20


\* The sum of d_ytd over the districts D of warehouse w.
RECURSIVE SumDYtd(_, _)
SumDYtd(w, D) ==
    IF D = {} THEN 0
    ELSE LET d == CHOOSE x \in D : TRUE
         IN db[<<"district", w, d>>].d_ytd + SumDYtd(w, D \ {d})

\* C35: in the loaded database, and after the Payments that committed or
\* were rolled back on it in any interleaving, the w_ytd of every warehouse
\* is the sum of the d_ytd of its districts.
C35_WarehouseYtdIsDistrictsYtd ==
    \A w \in WarehouseIds :
      db[<<"warehouse", w>>].w_ytd = SumDYtd(w, DistrictIds)

\* Both sessions are done with a Payment for warehouse 1, one committed and
\* one rolled back after its two updates; the warehouse has the amount of
\* the committed one.
C35_Witness ==
    /\ \A s \in DOMAIN session :
         /\ session[s].tx_id = 3 /\ session[s].pc = "returned"
         /\ session[s].warehouse_id = 1
    /\ \E s, t \in DOMAIN session :
         /\ session[s].result = "Ok" /\ session[s].n_commit = 1
         /\ session[t].n_rollback = 1
         /\ session[t].error =
              "Payment transaction rollbacked. Customer not found (c_last)."
    /\ db[<<"warehouse", 1>>].w_ytd > LoadedDb[<<"warehouse", 1>>].w_ytd
    /\ db[<<"warehouse", 1>>].w_ytd = SumDYtd(1, DistrictIds)


\* C36: on the loaded database and after the New-Orders and Deliveries
\* committed on it, an order has a new_order row exactly when its
\* o_carrier_id is NULL, and every new_order row has the orders row of its
\* warehouse, district and order id.
C36_NewOrderIffNoCarrier ==
    \A k \in DOMAIN db :
      /\ k[1] = "orders" =>
           (<<"new_order", k[2], k[3], k[4]>> \in DOMAIN db
              <=> db[k].o_carrier_id = 0)
      /\ k[1] = "new_order" =>
           <<"orders", k[2], k[3], k[4]>> \in DOMAIN db

\* The New-Order has committed an order on district 2, which had none to
\* deliver, and the Delivery, committed after it, has delivered that order
\* and the oldest of district 1.
C36_Witness ==
    /\ \A s \in DOMAIN session :
         session[s].pc = "returned" /\ session[s].result = "Ok"
    /\ <<"orders", 1, 2, 2>> \in DOMAIN db
    /\ <<"orders", 1, 2, 2>> \notin DOMAIN LoadedDb
    /\ db[<<"orders", 1, 2, 2>>].o_carrier_id # 0
    /\ <<"new_order", 1, 2, 2>> \notin DOMAIN db
    /\ <<"new_order", 1, 1, 1>> \notin DOMAIN db
    /\ <<"new_order", 1, 1, 2>> \in DOMAIN db


\* C37 (as stated): once the counters are published, they have an entry for
\* a transaction id exactly when an outcome of that id was consumed after
\* the end of the ramp-up; print_results ends the process with exit code 1
\* when an id of the catalog has no entry, and prints one summary row per
\* transaction when every id had an outcome in the steady state.
C37_PrintResultsNeedsEveryId ==
    /\ [](engine_pc = "done" =>
            \A t \in TxIds : t \in DOMAIN self_counters <=> SteadyOf(t) # {})
    /\ [][PrintResults =>
            IF \E t \in TxIds : SteadyOf(t) = {}
            THEN exit_code' = 1 /\ summary' = <<>>
            ELSE /\ exit_code' = 0
                 /\ DOMAIN summary' = TxIds
                 /\ \A t \in TxIds :
                      summary'[t].n_commits = Cardinality(SteadyCommittedOf(t))
       ]_vars


\* C38: provided every call of execute_rw_transaction returns and the
\* threads are scheduled, run_benchmark returns, unless a connection that
\* cannot be opened has ended the process: every client has then left its
\* loop on a passed deadline, the collector has consumed every message up
\* to TERMINATE and has ended, and the engine holds the collector's
\* counters.  A client in its loop can always send its outcome, whatever
\* the collector has consumed.
C38_RunBenchmarkReturns ==
    /\ <>(engine_pc = "done" \/ exit_code # 0)
    /\ [](engine_pc = "done" =>
            /\ \A c \in 1..args.client :
                 client_pc[c] = "done" /\ deadline_reached[c] /\ n_tx[c] >= 1
            /\ rx = <<>>
            /\ Received[Len(Received)].kind = "TERMINATE"
            /\ sink_pc = "done"
            /\ rx_counters = <<>>
            /\ self_counters = counters)
    /\ [](\A c \in 1..args.client :
            (exit_code = 0 /\ client_pc[c] = "loop") =>
               ENABLED (LiveCommitted(c) /\ UNCHANGED idle_vars))

\* run_benchmark has returned from a run of two clients of which one
\* executed two transactions.
C38_Witness ==
    /\ engine_pc = "done"
    /\ args.client = 2
    /\ sink_pc = "done"
    /\ \E c \in 1..args.client : n_tx[c] = 2
    /\ Len(consumed) = 5

=============================================================================
